---- MODULE Spec2Model ----
(***************************************************************************)
(* Model of crackle-kit's Parallel Record Pipeline                         *)
(* (ParallelBamProcessor::process_bam, crates/crackle-kit/src/bam/         *)
(* process.rs) together with the BatchedData / DataWithIndex containers    *)
(* it recycles.                                                            *)
(*                                                                         *)
(* One reader thread, worker_thread worker threads, one writer thread and  *)
(* the spawning thread that joins them, connected by three bounded         *)
(* crossbeam channels (tx_buf, tx_read, tx_worker).                        *)
(*                                                                         *)
(* A record is identified by its 1-based position in the input archive;    *)
(* 0 stands for Record::default().  An input item is one of                *)
(*   "keep"  read succeeds, modify_record returns Ok(Some(()))             *)
(*   "drop"  read succeeds, modify_record returns Ok(None)                 *)
(*   "uerr"  read succeeds, modify_record returns Err                      *)
(*   "rerr"  reader.read returns Some(Err)                                 *)
(* The modifier is deterministic and leaves the record's content alone     *)
(* (as OnlyOddPosRecord of the repository's test does).  Record names are  *)
(* taken to be valid UTF-8, so the `?` inside the worker's warning never   *)
(* fires.  A polling loop (try_recv -> Empty -> sleep -> continue) is a    *)
(* step that is enabled only once the queue has an item or is              *)
(* disconnected.                                                           *)
(***************************************************************************)
EXTENDS Integers, Sequences, FiniteSets, TLC

\* ------------------------------------------------------------------ bounds
\* MaxLen items in the input, of which MaxNotKept are not plain records;
\* batch_size, channel_capacity and worker_thread up to MaxBatch, MaxCap
\* and MaxWorkers; and a run as a whole (items, seed batches and workers
\* together) no larger than MaxSize.
MaxLen == 3
MaxBatch == 2
MaxCap == 2
MaxWorkers == 2
MaxNotKept == 1
MaxSize == 7
\* Site lists of up to MaxSites sites at 1-based positions up to MaxPos,
\* windows up to MaxWin.
MaxSites == 3
MaxPos == 3
MaxWin == 2
\* Region lists of up to MaxRegions regions that end by MaxEnd, windows up
\* to MaxRegionWin.
MaxRegions == 3
MaxEnd == 2
MaxRegionWin == 3
\* Packed arrays of up to MaxChunks chunks, built from byte strings that
\* are a padding followed by up to MaxTail free bytes.
MaxChunks == 2
MaxTail == 2
\* Up to MaxSets calls of set on one array.
MaxSets == 2
\* Up to MaxIterSets calls of set on an array before it is iterated.
MaxIterSets == 1
\* Buffers of up to MaxSlots slots, MaxExtra calls of next_mut past the
\* capacity, slot values up to MaxVal.
MaxSlots == 3
MaxExtra == 2
MaxVal == 3
\* Up to MaxCalls calls of the methods of one buffer.
MaxCalls == 4

\* The writer's cap on the batches it makes, `let maximum_batch_gen = 1024`
\* in the source, at a size that the out-of-order arrivals of one stall can
\* exceed.
maximum_batch_gen == 1

\* ------------------------------------------------------- program constants

ItemKinds == {"keep", "drop", "uerr", "rerr"}

RECURSIVE SeqsUpTo(_, _)
SeqsUpTo(S, n) ==
    IF n = 0 THEN {<<>>}
    ELSE LET prev == SeqsUpTo(S, n - 1)
         IN prev \cup {Append(s, x) : s \in {t \in prev : Len(t) = n - 1}, x \in S}

\* The input archives: up to MaxLen items, at most MaxNotKept of them other
\* than a record that reads well and is kept.
Inputs ==
    {s \in SeqsUpTo(ItemKinds, MaxLen) :
        Cardinality({k \in 1..Len(s) : s[k] # "keep"}) <= MaxNotKept}

\* The same archives when the user's modify_record may also panic on a
\* record ("upanic").
InputsPanic ==
    {s \in SeqsUpTo(ItemKinds \cup {"upanic"}, MaxLen) :
        Cardinality({k \in 1..Len(s) : s[k] # "keep"}) <= MaxNotKept}

VARIABLES
    input, batch_size, channel_capacity, worker_thread,
    tx_buf, tx_read, tx_worker,
    tx_read_alive, tx_worker_alive,
    rpc, pos, ri, rbatch, reof, rloaded,
    wpc, wbatch,
    wrpc, wi, ordered_buf_map, wrbatch, output,
    mpc, mj, result,
    minted, sent, handled, stall_minted

cfgvars == <<input, batch_size, channel_capacity, worker_thread>>
chanvars == <<tx_buf, tx_read, tx_worker, tx_read_alive, tx_worker_alive>>
readervars == <<rpc, pos, ri, rbatch, reof, rloaded>>
workervars == <<wpc, wbatch>>
writervars == <<wrpc, wi, ordered_buf_map, wrbatch, output>>
mainvars == <<mpc, mj, result>>
ghostvars == <<minted, sent, handled, stall_minted>>
prpvars == <<cfgvars, chanvars, readervars, workervars, writervars, mainvars, ghostvars>>

\* process_with_batch (the parallel locus processor): the sites handed in,
\* the window, the archive's pile-up columns (0-based positions with
\* coverage, the same on every contig) and the positions at which the
\* pile-up iterator yields an error item; where the call stands, the
\* batches, what the parallel map has made of each batch, and the value
\* returned.  collected (history) is what the collect had before it: why
\* batches had failed and how many results the batches had produced.
VARIABLES
    sites, batch_window_size, columns, pileup_errors,
    ppc, batched_regions, batch_res, plp_result,
    collected

plpvars == <<sites, batch_window_size, columns, pileup_errors,
             ppc, batched_regions, batch_res, plp_result, collected>>

\* batch_region: the regions handed in, the window, where the call stands
\* and the batches returned.
VARIABLES regions, region_window_size, gpc, region_batches

regionvars == <<regions, region_window_size, gpc, region_batches>>

\* BaseArr<C, N>: the chunk type C and the number N of chunks, the bytes
\* handed to from_bytes, what from_bytes returned, what to_string returned
\* and where the caller stands; the last call of get (its index and what
\* it returned), the calls of set made so far and the array as it was
\* before the last of them.
VARIABLES pbs_type, pbs_n, pbs_s, pbs_arr, pbs_text, bpc, pbs_got, pbs_sets, pbs_prev

pbsvars == <<pbs_type, pbs_n, pbs_s, pbs_arr, pbs_text, bpc, pbs_got, pbs_sets, pbs_prev>>

\* What from_iter returned on the bytes of pbs_s; a BaseArrIter over the
\* array (its fields, and the range it was made for) and what its calls of
\* next returned so far.
VARIABLES pbs_iter, it, it_log

itervars == <<pbs_iter, it, it_log>>

\* BatchedData<T> on its own: the buffer, the vector it was made from, and
\* the calls made on it so far, each with what it returned and the value
\* the caller wrote through the handle it got.
VARIABLES bd, bd_init, bd_log

bdvars == <<bd, bd_init, bd_log>>

\* The methods of BatchedData called in any order: the buffer before the
\* last call, the last call (its method, what it returned and the method
\* called before it) and the number of calls so far.
VARIABLES bd_prev, bd_call, bd_n

bdcallvars == <<bd_prev, bd_call, bd_n>>

\* Everything that is not a variable of process_bam, of process_with_batch,
\* of batch_region, of BaseArr, of BatchedData.
libvars == <<plpvars, regionvars, pbsvars, itervars, bdvars, bdcallvars>>
notplp == <<prpvars, regionvars, pbsvars, itervars, bdvars, bdcallvars>>
notregion == <<prpvars, plpvars, pbsvars, itervars, bdvars, bdcallvars>>
notpbs == <<prpvars, plpvars, regionvars, itervars, bdvars, bdcallvars>>
notbd == <<prpvars, plpvars, regionvars, pbsvars, itervars, bdcallvars>>
\* Everything but the variables of BaseArr, of from_iter and of BaseArrIter.
notbasearr == <<prpvars, plpvars, regionvars, bdvars, bdcallvars>>
\* Everything but the variables of a BatchedData on its own.
notbatched == <<prpvars, plpvars, regionvars, pbsvars, itervars>>

vars == <<prpvars, libvars>>

\* ------------------------------------------------ DataWithIndex / BatchedData
default_record == 0

\* hdr: the record has a header attached (Record::default() has none).
DataWithIndex_new(data, idx) == [rec |-> data, idx |-> idx, hdr |-> FALSE]

\* record.set_header(..) and record.remove_header() on the record of a slot.
set_header(slot) == [slot EXCEPT !.hdr = TRUE]
remove_header(slot) == [slot EXCEPT !.hdr = FALSE]

BatchedData_new(slot, n) == [inner |-> [k \in 1..n |-> slot], next_item_idx |-> 0]

batch_init(n) == BatchedData_new(DataWithIndex_new(default_record, 0), n)

NoBatch == [inner |-> <<>>, next_item_idx |-> 0]

is_full(b) == b.next_item_idx >= Len(b.inner)

is_empty(b) == b.next_item_idx = 0

filled(b) == SubSeq(b.inner, 1, b.next_item_idx)

\* next_mut when the batch is not full: the cursor advances and the slot
\* handed out is inner[next_item_idx] of the result (1-based).
next_mut(b) == [b EXCEPT !.next_item_idx = @ + 1]

reset_index(b) == [b EXCEPT !.next_item_idx = 0]

\* HashMap<usize, BatchedData<..>> of the writer.
EmptyMap == [k \in {} |-> NoBatch]

map_insert(m, k, b) == [x \in DOMAIN m \cup {k} |-> IF x = k THEN b ELSE m[x]]

map_remove(m, k) == [x \in DOMAIN m \ {k} |-> m[x]]

\* ------------------------------------------------------------------- Init
InitWith(ins) ==
    /\ input \in ins
    /\ batch_size \in 1..MaxBatch
    /\ channel_capacity \in 1..MaxCap
    /\ worker_thread \in 1..MaxWorkers
    /\ Len(input) + channel_capacity + worker_thread <= MaxSize
    /\ tx_buf = [k \in 1..channel_capacity |-> batch_init(batch_size)]
    /\ tx_read = <<>>
    /\ tx_worker = <<>>
    /\ tx_read_alive = TRUE
    /\ tx_worker_alive = TRUE
    /\ rpc = "open"
    /\ pos = 0
    /\ ri = 0
    /\ rbatch = NoBatch
    /\ reof = FALSE
    /\ rloaded = {}
    /\ wpc = [w \in 1..MaxWorkers |-> IF w <= worker_thread THEN "recv" ELSE "unspawned"]
    /\ wbatch = [w \in 1..MaxWorkers |-> NoBatch]
    /\ wrpc = "open"
    /\ wi = 0
    /\ ordered_buf_map = EmptyMap
    /\ wrbatch = NoBatch
    /\ output = <<>>
    /\ mpc = "join_reader"
    /\ mj = 1
    /\ result = "none"
    /\ minted = 0
    /\ stall_minted = 0
    /\ sent = <<>>
    /\ handled = <<>>

\* No call of process_with_batch is under way.
PlpIdle ==
    /\ sites = <<>>
    /\ batch_window_size = 1
    /\ columns = {}
    /\ pileup_errors = {}
    /\ ppc = "idle"
    /\ batched_regions = <<>>
    /\ batch_res = <<>>
    /\ plp_result = [st |-> "none", out |-> <<>>]
    /\ collected = [causes |-> {}, produced |-> 0]

\* No call of batch_region is under way.
RegionIdle ==
    /\ regions = <<>>
    /\ region_window_size = 1
    /\ gpc = "idle"
    /\ region_batches = <<>>

\* No BaseArr is being built.
PbsIdle ==
    /\ pbs_type = "u64"
    /\ pbs_n = 1
    /\ pbs_s = <<>>
    /\ pbs_arr = [st |-> "none"]
    /\ pbs_text = [st |-> "none"]
    /\ bpc = "idle"
    /\ pbs_got = [st |-> "none"]
    /\ pbs_sets = <<>>
    /\ pbs_prev = [st |-> "none"]
    /\ pbs_iter = [st |-> "none"]
    /\ it = [st |-> "none"]
    /\ it_log = <<>>

\* No BatchedData is in use on its own.
\* What a call returned is a sequence: <<x>> for Some(x), <<>> for None and
\* for (), the slice for filled.
NoCall == [op |-> "none", ret |-> <<>>, panic |-> FALSE, before |-> "none"]

\* No method of the buffer was called yet.
BdNoCall ==
    /\ bd_prev = NoBatch
    /\ bd_call = NoCall
    /\ bd_n = 0

BdIdle ==
    /\ bd = NoBatch
    /\ bd_init = <<>>
    /\ bd_log = <<>>
    /\ BdNoCall

LibIdle == PlpIdle /\ RegionIdle /\ PbsIdle /\ BdIdle

Init == InitWith(Inputs) /\ LibIdle

\* The start of a run whose modifier may panic.
InitPanic == InitWith(InputsPanic) /\ LibIdle

\* No call of process_bam is under way.
PrpIdle ==
    /\ InitWith({<<>>})
    /\ batch_size = 1
    /\ channel_capacity = 1
    /\ worker_thread = 1

\* ----------------------------------------------------------------- reader
\* reader_slot without record.remove_header().
reader_slot_keeps_header(slot, data, i) ==
    [set_header([slot EXCEPT !.rec = data]) EXCEPT !.idx = i]

\* reader.read(record) = Some(Ok(_)): the read puts the record into the
\* slot with the reader's header attached; then record.remove_header() and
\* record_with_idx.idx = i.
reader_slot(slot, data, i) ==
    [remove_header(set_header([slot EXCEPT !.rec = data])) EXCEPT !.idx = i]

\* The fill loop of the reader (while let Some(..) = record_batch.next_mut()).
\* p = number of input items consumed, i = next sequence index,
\* ld = slots assigned a record during this fill.
RECURSIVE fill_loop(_, _, _, _, _)
fill_loop(b, p, i, ld, inp) ==
    IF is_full(b)
    THEN [batch |-> b, pos |-> p, i |-> i, eof |-> FALSE, loaded |-> ld]
    ELSE LET nb == next_mut(b)
             k == nb.next_item_idx
         IN IF p >= Len(inp)
            THEN \* reader.read returned None: the slot taken by next_mut
                 \* stays as it was, the cursor has already moved past it
                 [batch |-> nb, pos |-> p, i |-> i, eof |-> TRUE, loaded |-> ld]
            ELSE IF inp[p + 1] = "rerr"
            THEN \* Some(Err): warning only, slot and i are not assigned
                 fill_loop(nb, p + 1, i, ld, inp)
            ELSE fill_loop([nb EXCEPT !.inner[k] = reader_slot(nb.inner[k], p + 1, i)],
                           p + 1, i + 1, ld \cup {k}, inp)

\* IndexedReader::from_path / set_threads / fetch at the top of the reader.
ReaderOpen ==
    /\ rpc = "open"
    /\ \/ rpc' = "take" /\ UNCHANGED tx_read_alive
       \/ rpc' = "err" /\ tx_read_alive' = FALSE
    /\ UNCHANGED <<libvars, cfgvars, tx_buf, tx_read, tx_worker, tx_worker_alive,
                   pos, ri, rbatch, reof, rloaded,
                   workervars, writervars, mainvars, ghostvars>>

\* tx_buf's only sender is the one moved into the writer thread.
tx_buf_disconnected == wrpc \in {"ok", "err", "panic"}

\* rx_buf_clone.try_recv() = Ok(batch), then the whole fill loop.
ReaderTake ==
    /\ rpc = "take"
    /\ tx_buf # <<>>
    /\ LET r == fill_loop(Head(tx_buf), pos, ri, {}, input)
       IN /\ rbatch' = r.batch
          /\ pos' = r.pos
          /\ ri' = r.i
          /\ reof' = r.eof
          /\ rloaded' = r.loaded
    /\ tx_buf' = Tail(tx_buf)
    /\ rpc' = "send"
    /\ UNCHANGED <<libvars, cfgvars, tx_read, tx_worker, tx_read_alive, tx_worker_alive,
                   workervars, writervars, mainvars, ghostvars>>

\* rx_buf_clone.try_recv() = Err(Disconnected): break, thread returns Ok.
ReaderDisconnected ==
    /\ rpc = "take"
    /\ tx_buf = <<>>
    /\ tx_buf_disconnected
    /\ rpc' = "ok"
    /\ tx_read_alive' = FALSE
    /\ UNCHANGED <<libvars, cfgvars, tx_buf, tx_read, tx_worker, tx_worker_alive,
                   pos, ri, rbatch, reof, rloaded,
                   workervars, writervars, mainvars, ghostvars>>

SentSlots(b, ld) ==
    [k \in 1..b.next_item_idx |->
        [rec |-> b.inner[k].rec, idx |-> b.inner[k].idx, loaded |-> k \in ld]]

\* tx_read.send(record_batch): at EOF guarded by !is_empty(), then
\* drop(tx_read) and the thread returns; otherwise back to the loop head.
\* rx_read itself stays alive in process_bam, so the send never fails.
ReaderSend ==
    /\ rpc = "send"
    /\ IF reof /\ is_empty(rbatch)
       THEN UNCHANGED <<tx_read, sent>>
       ELSE /\ Len(tx_read) < channel_capacity
            /\ tx_read' = Append(tx_read, rbatch)
            /\ sent' = sent \o SentSlots(rbatch, rloaded)
    /\ rbatch' = NoBatch
    /\ rloaded' = {}
    /\ IF reof
       THEN rpc' = "ok" /\ tx_read_alive' = FALSE
       ELSE rpc' = "take" /\ UNCHANGED tx_read_alive
    /\ UNCHANGED <<libvars, cfgvars, tx_buf, tx_worker, tx_worker_alive,
                   pos, ri, reof,
                   workervars, writervars, mainvars, minted, handled, stall_minted>>

\* ----------------------------------------------------------------- workers
\* RecordModifier::modify_record on the record held by a slot.  The default
\* record is left as it is by every arm of the worker's match.
modify_record(rec, inp) == IF rec = default_record THEN "keep" ELSE inp[rec]

\* worker_slot without the re-assignment of Record::default().
worker_slot_keep_dropped(slot, inp) == slot

\* One slot of the worker's for loop: the header is attached, then
\* Ok(Some) keeps the record and detaches the header, Ok(None) and Err
\* replace the record by Record::default().
worker_slot(slot, inp) ==
    LET with_header == set_header(slot)
    IN IF modify_record(with_header.rec, inp) = "keep"
       THEN remove_header(with_header)
       ELSE [with_header EXCEPT !.rec = default_record, !.hdr = FALSE]

\* for record_with_idx in record_batch.filled_mut() { ... }
\* The worker loop followed by record_batch.reset_index().
worker_batch_reset(b, inp) ==
    reset_index([b EXCEPT !.inner = [k \in DOMAIN b.inner |->
        IF k <= b.next_item_idx THEN worker_slot(b.inner[k], inp) ELSE b.inner[k]]])

worker_batch(b, inp) ==
    [b EXCEPT !.inner = [k \in DOMAIN b.inner |->
        IF k <= b.next_item_idx THEN worker_slot(b.inner[k], inp) ELSE b.inner[k]]]

\* WorkerRecv with `Err(err)?` in the Err arm of the match: the worker
\* thread ends with an error at the first record the modifier fails on.
WorkerRecv_err_fatal(w) ==
    /\ wpc[w] = "recv"
    /\ tx_read # <<>>
    /\ LET b == Head(tx_read)
           failed == \E k \in 1..b.next_item_idx :
                        modify_record(b.inner[k].rec, input) = "uerr"
       IN /\ wbatch' = [wbatch EXCEPT ![w] =
                          IF failed THEN NoBatch ELSE worker_batch(b, input)]
          /\ wpc' = [wpc EXCEPT ![w] = IF failed THEN "err" ELSE "send"]
    /\ tx_read' = Tail(tx_read)
    /\ UNCHANGED <<libvars, cfgvars, tx_buf, tx_worker, tx_read_alive, tx_worker_alive,
                   readervars, writervars, mainvars, ghostvars>>

\* modify_record unwinds on some filled slot of the batch.
modifier_panics(b, inp) ==
    \E k \in 1..b.next_item_idx : modify_record(b.inner[k].rec, inp) = "upanic"

\* rx_read_clone.try_recv() = Ok(batch), then the for loop over the slots.
\* A panic inside modify_record unwinds the worker's closure: the batch it
\* holds is dropped with it and the thread ends panicked.
WorkerRecv(w) ==
    /\ wpc[w] = "recv"
    /\ tx_read # <<>>
    /\ IF modifier_panics(Head(tx_read), input)
       THEN /\ wbatch' = [wbatch EXCEPT ![w] = NoBatch]
            /\ wpc' = [wpc EXCEPT ![w] = "panic"]
       ELSE /\ wbatch' = [wbatch EXCEPT ![w] = worker_batch(Head(tx_read), input)]
            /\ wpc' = [wpc EXCEPT ![w] = "send"]
    /\ tx_read' = Tail(tx_read)
    /\ UNCHANGED <<libvars, cfgvars, tx_buf, tx_worker, tx_read_alive, tx_worker_alive,
                   readervars, writervars, mainvars, ghostvars>>

\* rx_worker lives in the writer thread only.
rx_worker_dropped == wrpc \in {"ok", "err", "panic"}

\* tx_worker_clone.send(record_batch): Ok, or Err once the writer is gone
\* (the worker then returns the error).
WorkerSend(w) ==
    /\ wpc[w] = "send"
    /\ IF rx_worker_dropped
       THEN /\ wpc' = [wpc EXCEPT ![w] = "err"]
            /\ UNCHANGED tx_worker
       ELSE /\ Len(tx_worker) < channel_capacity
            /\ tx_worker' = Append(tx_worker, wbatch[w])
            /\ wpc' = [wpc EXCEPT ![w] = "recv"]
    /\ wbatch' = [wbatch EXCEPT ![w] = NoBatch]
    /\ UNCHANGED <<libvars, cfgvars, tx_buf, tx_read, tx_read_alive, tx_worker_alive,
                   readervars, writervars, mainvars, ghostvars>>

\* rx_read_clone.try_recv() = Err(Disconnected): break, thread returns Ok.
WorkerDisconnected(w) ==
    /\ wpc[w] = "recv"
    /\ tx_read = <<>>
    /\ ~tx_read_alive
    /\ wpc' = [wpc EXCEPT ![w] = "ok"]
    /\ UNCHANGED <<libvars, cfgvars, chanvars, readervars, wbatch, writervars,
                   mainvars, ghostvars>>

\* ------------------------------------------------------------------ writer
\* The for loop of write_and_send_batch over the filled slots, from slot j.
\* c = writes attempted so far in this call, f = which write of this call
\* fails (0: none), i = the writer's counter, out = the output archive,
\* hd = the slots handled so far.
RECURSIVE write_loop(_, _, _, _, _, _, _)
write_loop(slots, j, c, f, i, out, hd) ==
    IF j > Len(slots)
    THEN [ok |-> TRUE, i |-> i, out |-> out, hd |-> hd]
    ELSE IF slots[j].rec # default_record
    THEN IF c + 1 = f
         THEN \* writer.write(&record)? returns the error
              [ok |-> FALSE, i |-> i, out |-> out, hd |-> hd]
         ELSE write_loop(slots, j + 1, c + 1, f, i + 1, Append(out, slots[j]),
                         Append(hd, [rec |-> slots[j].rec, idx |-> slots[j].idx,
                                     written |-> TRUE]))
    ELSE write_loop(slots, j + 1, c, f, i + 1, out,
                    Append(hd, [rec |-> slots[j].rec, idx |-> slots[j].idx,
                                written |-> FALSE]))

write_and_send_batch(b, f, i, out, hd) == write_loop(filled(b), 1, 0, f, i, out, hd)

NumWrites(b) == Cardinality({k \in 1..b.next_item_idx : b.inner[k].rec # default_record})

\* Writer::from_path / set_threads at the top of the writer thread.
WriterOpen ==
    /\ wrpc = "open"
    /\ wrpc' \in {"recv", "err"}
    /\ UNCHANGED <<libvars, cfgvars, chanvars, readervars, workervars,
                   wi, ordered_buf_map, wrbatch, output, mainvars, ghostvars>>

\* writer_pick with a lookup (get) in place of ordered_buf_map.remove(&i).
writer_pick_no_remove(got, i, m) ==
    LET start_idx_from_channel == got.inner[1].idx
    IN IF start_idx_from_channel = i
       THEN [found |-> TRUE, batch |-> got, map |-> m]
       ELSE LET m2 == map_insert(m, start_idx_from_channel, got)
            IN IF i \in DOMAIN m2
               THEN [found |-> TRUE, batch |-> m2[i], map |-> m2]
               ELSE [found |-> FALSE, batch |-> NoBatch, map |-> m2]

\* The batch the writer goes on with after taking `got` from rx_worker:
\* `got` itself if it starts at i, otherwise `got` is parked and the batch
\* parked under i (if any) is taken out.
writer_pick(got, i, m) ==
    LET start_idx_from_channel == got.inner[1].idx
    IN IF start_idx_from_channel = i
       THEN [found |-> TRUE, batch |-> got, map |-> m]
       ELSE LET m2 == map_insert(m, start_idx_from_channel, got)
            IN IF i \in DOMAIN m2
               THEN [found |-> TRUE, batch |-> m2[i], map |-> map_remove(m2, i)]
               ELSE [found |-> FALSE, batch |-> NoBatch, map |-> m2]

\* One iteration of the writer's main loop up to its tx_buf.send:
\* rx_worker.try_recv() = Ok(batch); an empty batch panics; a batch to
\* write is written (a write may fail) and reset; with nothing to write a
\* fresh batch is made (n_batch_gen is 0 at this point of every iteration).
WriterRecv ==
    /\ wrpc = "recv"
    /\ tx_worker # <<>>
    /\ tx_worker' = Tail(tx_worker)
    /\ LET got == Head(tx_worker)
       IN IF is_empty(got)
          THEN /\ wrpc' = "panic"
               /\ UNCHANGED <<wi, ordered_buf_map, wrbatch, output, minted, handled,
                              stall_minted>>
          ELSE LET pk == writer_pick(got, wi, ordered_buf_map)
                   n_batch_gen == 0
               IN /\ ordered_buf_map' = pk.map
                  /\ IF pk.found
                     THEN \E f \in 0..NumWrites(pk.batch) :
                            LET r == write_and_send_batch(pk.batch, f, wi, output, handled)
                            IN /\ wi' = r.i
                               /\ output' = r.out
                               /\ handled' = r.hd
                               /\ IF r.ok
                                  THEN /\ wrbatch' = reset_index(pk.batch)
                                       /\ wrpc' = "send"
                                  ELSE /\ wrbatch' = NoBatch
                                       /\ wrpc' = "err"
                               /\ stall_minted' = 0
                               /\ UNCHANGED minted
                     ELSE /\ IF n_batch_gen < maximum_batch_gen
                             THEN /\ wrbatch' = batch_init(batch_size)
                                  /\ minted' = minted + 1
                                  /\ stall_minted' = stall_minted + 1
                                  /\ wrpc' = "send"
                             ELSE UNCHANGED <<wrbatch, minted, stall_minted, wrpc>>
                          /\ UNCHANGED <<wi, output, handled>>
    /\ UNCHANGED <<libvars, cfgvars, tx_buf, tx_read, tx_read_alive, tx_worker_alive,
                   readervars, workervars, mainvars, sent>>

\* tx_buf.send(..) of the main loop (a written batch or a fresh one).
\* rx_buf itself stays alive in process_bam, so the send never fails.
WriterSend ==
    /\ wrpc = "send"
    /\ Len(tx_buf) < channel_capacity
    /\ tx_buf' = Append(tx_buf, wrbatch)
    /\ wrbatch' = NoBatch
    /\ wrpc' = "recv"
    /\ UNCHANGED <<libvars, cfgvars, tx_read, tx_worker, tx_read_alive, tx_worker_alive,
                   readervars, workervars, wi, ordered_buf_map, output,
                   mainvars, ghostvars>>

\* Every Sender of tx_worker is gone: the workers' clones and the original.
tx_worker_disconnected ==
    /\ ~tx_worker_alive
    /\ \A w \in 1..MaxWorkers : wpc[w] \in {"unspawned", "ok", "err", "panic"}

\* rx_worker.try_recv() = Err(Disconnected): leave the main loop.
WriterDisconnected ==
    /\ wrpc = "recv"
    /\ tx_worker = <<>>
    /\ tx_worker_disconnected
    /\ wrpc' = "drain"
    /\ UNCHANGED <<libvars, cfgvars, chanvars, readervars, workervars,
                   wi, ordered_buf_map, wrbatch, output, mainvars, ghostvars>>

\* The final loop with send_empty_batch = true: the batch it wrote goes to
\* tx_buf.send like a batch of the main loop.
WriterDrain_sends_batch ==
    /\ wrpc = "drain"
    /\ wi \in DOMAIN ordered_buf_map
    /\ ordered_buf_map' = map_remove(ordered_buf_map, wi)
    /\ \E f \in 0..NumWrites(ordered_buf_map[wi]) :
         LET r == write_and_send_batch(ordered_buf_map[wi], f, wi, output, handled)
         IN /\ wi' = r.i
            /\ output' = r.out
            /\ handled' = r.hd
            /\ wrpc' = IF r.ok THEN "send" ELSE "err"
            /\ wrbatch' = IF r.ok THEN reset_index(ordered_buf_map[wi]) ELSE NoBatch
    /\ stall_minted' = 0
    /\ UNCHANGED <<libvars, cfgvars, chanvars, readervars, workervars,
                   mainvars, minted, sent>>

\* One iteration of the final loop over ordered_buf_map: the batch parked
\* under i is written and dropped (send_empty_batch = false).
WriterDrain ==
    /\ wrpc = "drain"
    /\ wi \in DOMAIN ordered_buf_map
    /\ ordered_buf_map' = map_remove(ordered_buf_map, wi)
    /\ \E f \in 0..NumWrites(ordered_buf_map[wi]) :
         LET r == write_and_send_batch(ordered_buf_map[wi], f, wi, output, handled)
         IN /\ wi' = r.i
            /\ output' = r.out
            /\ handled' = r.hd
            /\ wrpc' = IF r.ok THEN "drain" ELSE "err"
    /\ stall_minted' = 0
    /\ UNCHANGED <<libvars, cfgvars, chanvars, readervars, workervars, wrbatch,
                   mainvars, minted, sent>>

\* Nothing parked under i: debug_assert!(ordered_buf_map.is_empty()), then
\* the thread returns Ok.  With batches left in the map the assertion
\* panics in a build with debug assertions and is absent from a release
\* build: both outcomes are possible.
WriterFinish ==
    /\ wrpc = "drain"
    /\ wi \notin DOMAIN ordered_buf_map
    /\ \E debug_assertions \in BOOLEAN :
         wrpc' = IF debug_assertions /\ DOMAIN ordered_buf_map # {}
                 THEN "panic" ELSE "ok"
    /\ UNCHANGED <<libvars, cfgvars, chanvars, readervars, workervars,
                   wi, ordered_buf_map, wrbatch, output, mainvars, ghostvars>>

\* ------------------------------------------------- the spawning thread
Terminal == {"ok", "err", "panic"}

\* join_outcome that discards the thread's Result (`let _ = handle.join()`).
join_outcome_ignore(st) == IF st = "panic" THEN "panic" ELSE "ok"

\* What `handle.join().expect(..)?` makes of a finished thread.
join_outcome(st) == st

\* reader_handle.join().expect("Reader thread panicked")?
\* Leaving the scope closure early drops the tx_worker it captured.
MainJoinReader ==
    /\ mpc = "join_reader"
    /\ rpc \in Terminal
    /\ IF join_outcome(rpc) = "ok"
       THEN /\ mpc' = "join_worker"
            /\ UNCHANGED <<result, tx_worker_alive>>
       ELSE /\ mpc' = "scope_wait"
            /\ result' = join_outcome(rpc)
            /\ tx_worker_alive' = FALSE
    /\ UNCHANGED <<libvars, cfgvars, tx_buf, tx_read, tx_worker, tx_read_alive,
                   readervars, workervars, writervars, mj, ghostvars>>

\* MainJoinWorker without drop(tx_worker) after the last worker.
MainJoinWorker_no_drop ==
    /\ mpc = "join_worker"
    /\ wpc[mj] \in {"ok", "err", "panic"}
    /\ IF wpc[mj] = "ok"
       THEN IF mj = worker_thread
            THEN /\ mpc' = "join_writer"
                 /\ UNCHANGED <<mj, result, tx_worker_alive>>
            ELSE /\ mj' = mj + 1
                 /\ UNCHANGED <<mpc, result, tx_worker_alive>>
       ELSE /\ mpc' = "scope_wait"
            /\ result' = wpc[mj]
            /\ tx_worker_alive' = FALSE
            /\ UNCHANGED mj
    /\ UNCHANGED <<libvars, cfgvars, tx_buf, tx_read, tx_worker, tx_read_alive,
                   readervars, workervars, writervars, ghostvars>>

\* for handle in worker_handles { handle.join().expect(..)? }, followed by
\* drop(tx_worker) after the last worker.
MainJoinWorker ==
    /\ mpc = "join_worker"
    /\ wpc[mj] \in Terminal
    /\ IF join_outcome(wpc[mj]) = "ok"
       THEN IF mj = worker_thread
            THEN /\ mpc' = "join_writer"
                 /\ tx_worker_alive' = FALSE
                 /\ UNCHANGED <<mj, result>>
            ELSE /\ mj' = mj + 1
                 /\ UNCHANGED <<mpc, result, tx_worker_alive>>
       ELSE /\ mpc' = "scope_wait"
            /\ result' = join_outcome(wpc[mj])
            /\ tx_worker_alive' = FALSE
            /\ UNCHANGED mj
    /\ UNCHANGED <<libvars, cfgvars, tx_buf, tx_read, tx_worker, tx_read_alive,
                   readervars, workervars, writervars, ghostvars>>

\* writer_handle.join().expect("Writer thread panicked")?; Ok(())
MainJoinWriter ==
    /\ mpc = "join_writer"
    /\ wrpc \in Terminal
    /\ mpc' = "scope_end"
    /\ result' = join_outcome(wrpc)
    /\ UNCHANGED <<libvars, cfgvars, chanvars, readervars, workervars, writervars,
                   mj, ghostvars>>

AllThreadsExited ==
    /\ rpc \in Terminal
    /\ \A w \in 1..MaxWorkers : wpc[w] \in Terminal \cup {"unspawned"}
    /\ wrpc \in Terminal

\* A thread that panicked and whose handle the scope closure never joined
\* (the closure left early after the reader or after worker mj).
UnjoinedPanic ==
    /\ mpc = "scope_wait"
    /\ \/ wrpc = "panic"
       \/ \E w \in 1..MaxWorkers :
            wpc[w] = "panic" /\ (w > mj \/ join_outcome(rpc) # "ok")

\* thread::scope returns once every spawned thread has finished; process_bam
\* then returns the closure's result, or unwinds ("a scoped thread
\* panicked") when an unjoined thread panicked.
MainScopeEnd ==
    /\ mpc \in {"scope_wait", "scope_end"}
    /\ AllThreadsExited
    /\ mpc' = "done"
    /\ result' = IF UnjoinedPanic THEN "panic" ELSE result
    /\ UNCHANGED <<libvars, cfgvars, chanvars, readervars, workervars, writervars,
                   mj, ghostvars>>

\* ------------------------------------------------------------------- Next
Reader == ReaderOpen \/ ReaderTake \/ ReaderDisconnected \/ ReaderSend

Worker(w) == WorkerRecv(w) \/ WorkerSend(w) \/ WorkerDisconnected(w)

Writer == WriterOpen \/ WriterRecv \/ WriterSend \/ WriterDisconnected
              \/ WriterDrain \/ WriterFinish

Main == MainJoinReader \/ MainJoinWorker \/ MainJoinWriter \/ MainScopeEnd

Next ==
    \/ ReaderOpen
    \/ ReaderTake
    \/ ReaderDisconnected
    \/ ReaderSend
    \/ \E w \in 1..MaxWorkers : WorkerRecv(w)
    \/ \E w \in 1..MaxWorkers : WorkerSend(w)
    \/ \E w \in 1..MaxWorkers : WorkerDisconnected(w)
    \/ WriterOpen
    \/ WriterRecv
    \/ WriterSend
    \/ WriterDisconnected
    \/ WriterDrain
    \/ WriterFinish
    \/ MainJoinReader
    \/ MainJoinWorker
    \/ MainJoinWriter
    \/ MainScopeEnd

Spec == Init /\ [][Next]_vars

\* Preemptive OS threads: a thread that can take a step eventually does.
Fairness ==
    /\ WF_vars(Reader)
    /\ \A w \in 1..MaxWorkers : WF_vars(Worker(w))
    /\ WF_vars(Writer)
    /\ WF_vars(Main)

FairSpec == Spec /\ Fairness

\* The runs in which the modifier may panic.
SpecPanic == InitPanic /\ [][Next]_vars

\* ---------------------------------------------- batch_input_by_coordinate
Contigs == {"chr1", "chr2"}

\* Contigs in the order the archive lists them.
ContigIdx(c) == IF c = "chr1" THEN 1 ELSE 2

\* A site list with the identity of each item (its place in the list).
Tagged(cs) == [k \in 1..Len(cs) |-> [contig |-> cs[k][1], pos |-> cs[k][2], id |-> k]]

SortedByCoordinate(ss) ==
    \A k \in 1..(Len(ss) - 1) :
        \/ ContigIdx(ss[k].contig) < ContigIdx(ss[k + 1].contig)
        \/ ss[k].contig = ss[k + 1].contig /\ ss[k].pos <= ss[k + 1].pos

\* The site lists: sorted by (contig, pos), equal positions allowed.
SiteLists ==
    {ss \in {Tagged(cs) : cs \in SeqsUpTo(Contigs \X (1..MaxPos), MaxSites)} :
        SortedByCoordinate(ss)}

\* c_contig == gc.contig && gc.pos - c_start < window_size as i64, with
\* the bound taken inclusive.
same_batch_inclusive(c_contig, c_start, inp, window_size) ==
    c_contig = inp.contig /\ inp.pos - c_start <= window_size

\* c_contig == gc.contig && gc.pos - c_start < window_size as i64
same_batch(c_contig, c_start, inp, window_size) ==
    c_contig = inp.contig /\ inp.pos - c_start < window_size

\* for inp in input_iter { if same contig and inside the window: push,
\* else close the batch and open one with inp }; then the last batch.
RECURSIVE batch_loop(_, _, _, _, _, _, _)
batch_loop(inputs, k, c_contig, c_start, c_vec, res, window_size) ==
    IF k > Len(inputs)
    THEN IF c_vec # <<>> THEN Append(res, c_vec) ELSE res
    ELSE LET inp == inputs[k]
         IN IF same_batch(c_contig, c_start, inp, window_size)
            THEN batch_loop(inputs, k + 1, c_contig, c_start,
                            Append(c_vec, inp), res, window_size)
            ELSE batch_loop(inputs, k + 1, inp.contig, inp.pos,
                            <<inp>>, Append(res, c_vec), window_size)

\* batch_input_by_coordinate without c_vec.push(inp) for the first item.
batch_input_by_coordinate_no_first(inputs, window_size) ==
    IF inputs = <<>>
    THEN <<>>
    ELSE batch_loop(inputs, 2, inputs[1].contig, inputs[1].pos,
                    <<>>, <<>>, window_size)

batch_input_by_coordinate(inputs, window_size) ==
    IF inputs = <<>>
    THEN <<>>
    ELSE batch_loop(inputs, 2, inputs[1].contig, inputs[1].pos,
                    <<inputs[1]>>, <<>>, window_size)

\* ------------------------------------------------------ process_with_batch
RECURSIVE SortSet(_)
SortSet(S) ==
    IF S = {} THEN <<>>
    ELSE LET m == CHOOSE x \in S : \A y \in S : x <= y
         IN <<m>> \o SortSet(S \ {m})

\* pileups over a region that leaves out its first position.
pileups_from_next(cols, errs, start, end) ==
    LET ps == SortSet({q \in cols \cup errs : start < q /\ q < end})
    IN [k \in 1..Len(ps) |-> [pos |-> ps[k], ok |-> ps[k] \notin errs]]

\* ir.fetch((contig, start, end)) and ir.pileup_with_option(..): the
\* columns of the region in ascending order, each Ok or an error item.
pileups(cols, errs, start, end) ==
    LET ps == SortSet({q \in cols \cup errs : start <= q /\ q < end})
    IN [k \in 1..Len(ps) |-> [pos |-> ps[k], ok |-> ps[k] \notin errs]]

\* target_pos taken to be the site's 1-based position itself.
target_pos_one_based(inp) == inp.pos

\* let target_pos = input.genome_coordinate().pos - 1;
target_pos(inp) == inp.pos - 1

\* A batch whose closure returned Err: its partial results are dropped.
Failed(cause) ==
    [st |-> "err", res |-> <<>>, steps |-> <<>>, ci |-> 0, si |-> 0, cause |-> cause]

\* The sweep loop from column ci and site si on.  m = calls of
\* work_for_locus made so far, f = which call returns Err (0: none),
\* steps = the comparisons made, each with the cursors it was made at.
RECURSIVE sweep(_, _, _, _, _, _, _, _)
sweep(stream, ci, batch, si, f, m, res, steps) ==
    IF ci > Len(stream) \/ si > Len(batch)
    THEN [st |-> "ok", res |-> res, steps |-> steps, ci |-> ci, si |-> si,
          cause |-> "none"]
    ELSE IF ~stream[ci].ok
    THEN [st |-> "ok", res |-> res, steps |-> steps, ci |-> ci, si |-> si,
          cause |-> "none"]
    ELSE LET pileup_pos == stream[ci].pos
             t == target_pos(batch[si])
         IN IF pileup_pos < t
            THEN sweep(stream, ci + 1, batch, si, f, m, res,
                       Append(steps, [ci |-> ci, si |-> si, cmp |-> "Less"]))
            ELSE IF pileup_pos > t
            THEN sweep(stream, ci, batch, si + 1, f, m, res,
                       Append(steps, [ci |-> ci, si |-> si, cmp |-> "Greater"]))
            ELSE IF m + 1 = f
            THEN Failed("user")
            ELSE sweep(stream, ci + 1, batch, si + 1, f, m + 1,
                       Append(res, [col |-> pileup_pos, site |-> batch[si]]),
                       Append(steps, [ci |-> ci, si |-> si, cmp |-> "Equal"]))

\* The places a batch can have in batched_regions.
BatchIds == 1..(MaxSites + 1)

\* A batch the parallel map has not run.
Pending ==
    [st |-> "pending", res |-> <<>>, steps |-> <<>>, ci |-> 0, si |-> 0,
     cause |-> "none"]

\* map_batch that fails a batch in which a site went without a column.
map_batch_skip_is_error(batch, cols, errs, io, f) ==
    LET r == sweep(pileups(cols, errs, batch[1].pos - 1, batch[Len(batch)].pos),
                   1, batch, 1, f, 0, <<>>, <<>>)
    IN IF io # "ok" THEN Failed("io")
       ELSE IF r.st = "ok" /\ Len(r.res) < Len(batch) THEN Failed("skip")
       ELSE r

\* The closure of the parallel map on one batch; io = "fail" when
\* IndexedReader::from_path or ir.fetch fails.
map_batch(batch, cols, errs, io, f) ==
    IF batch = <<>>
    THEN [st |-> "ok", res |-> <<>>, steps |-> <<>>, ci |-> 0, si |-> 0,
          cause |-> "none"]
    ELSE IF io # "ok"
    THEN Failed("io")
    ELSE sweep(pileups(cols, errs, batch[1].pos - 1, batch[Len(batch)].pos),
               1, batch, 1, f, 0, <<>>, <<>>)

RECURSIVE concat_res(_)
concat_res(r) == IF r = <<>> THEN <<>> ELSE Head(r).res \o concat_res(Tail(r))

\* flatten that takes the batches from the last to the first.
flatten_reversed(r) == concat_res([k \in 1..Len(r) |-> r[Len(r) + 1 - k]])

\* r.into_iter().flatten().collect()
flatten(r) == concat_res(r)

\* The cases of process_with_batch explored: every sorted site list over
\* every coverage and window; an archive with columns at 100, 102 and 104
\* queried at sites 101, 102, 104 and 106 of one contig; and the sites
\* 100, 1099 and 1100 of one contig under a window of 1000.
PlpCases ==
    [sites : SiteLists, columns : SUBSET (0..(MaxPos - 1)),
     batch_window_size : 1..MaxWin]
    \cup
    [sites : {Tagged(<<<<"chr1", 101>>, <<"chr1", 102>>,
                       <<"chr1", 104>>, <<"chr1", 106>>>>)},
     columns : {{100, 102, 104}},
     batch_window_size : {1, 2, 4, 1000}]
    \cup
    [sites : {Tagged(<<<<"chr1", 100>>, <<"chr1", 1099>>, <<"chr1", 1100>>>>)},
     columns : {{}, {99, 1098, 1099}},
     batch_window_size : {1000}]

InitPLP ==
    /\ PrpIdle
    /\ RegionIdle
    /\ PbsIdle
    /\ BdIdle
    /\ \E case \in PlpCases :
         /\ sites = case.sites
         /\ columns = case.columns
         /\ batch_window_size = case.batch_window_size
    /\ pileup_errors = {}
    /\ ppc = "batch"
    /\ batched_regions = <<>>
    /\ batch_res = <<>>
    /\ plp_result = [st |-> "none", out |-> <<>>]
    /\ collected = [causes |-> {}, produced |-> 0]

\* batch_input_by_coordinate(..), then ThreadPoolBuilder::build()?.
PlpBatch ==
    /\ ppc = "batch"
    /\ batched_regions' = batch_input_by_coordinate(sites, batch_window_size)
    /\ batch_res' = [b \in 1..Len(batched_regions') |-> Pending]
    /\ \/ ppc' = "map" /\ UNCHANGED plp_result
       \/ ppc' = "done" /\ plp_result' = [st |-> "err", out |-> <<>>]
    /\ UNCHANGED <<notplp, sites, batch_window_size, columns, pileup_errors,
                   collected>>

\* The pool runs the closure on batch b.  Batches share nothing, so the
\* closure's run on one batch is one step, in any order among the batches.
PlpMap(b) ==
    /\ ppc = "map"
    /\ b \in DOMAIN batch_res
    /\ batch_res[b].st = "pending"
    /\ \E io \in {"ok", "fail"} : \E f \in 0..Len(batched_regions[b]) :
         batch_res' = [batch_res EXCEPT ![b] =
             map_batch(batched_regions[b], columns, pileup_errors, io, f)]
    /\ UNCHANGED <<notplp, sites, batch_window_size, columns, pileup_errors,
                   ppc, batched_regions, plp_result, collected>>

\* PlpCollect that returns what the batches that succeeded produced.
PlpCollect_partial ==
    /\ ppc = "map"
    /\ \/ \A b \in DOMAIN batch_res : batch_res[b].st # "pending"
       \/ \E b \in DOMAIN batch_res : batch_res[b].st = "err"
    /\ ppc' = "done"
    /\ plp_result' =
         [st |-> "ok", out |-> flatten(batch_res)]
    /\ batch_res' = <<>>
    /\ collected' =
         [causes |-> {batch_res[b].cause : b \in {c \in DOMAIN batch_res :
                                                   batch_res[c].st = "err"}},
          produced |-> Len(flatten(batch_res))]
    /\ UNCHANGED <<notplp, sites, batch_window_size, columns, pileup_errors,
                   batched_regions>>

\* .collect::<Result<Vec<_>, Error>>()?, flatten, Ok(batch_res).  Once a
\* batch has failed the batches not yet run may be skipped.  The
\* per-batch results are consumed.
PlpCollect ==
    /\ ppc = "map"
    /\ \/ \A b \in DOMAIN batch_res : batch_res[b].st # "pending"
       \/ \E b \in DOMAIN batch_res : batch_res[b].st = "err"
    /\ ppc' = "done"
    /\ plp_result' =
         IF \E b \in DOMAIN batch_res : batch_res[b].st = "err"
         THEN [st |-> "err", out |-> <<>>]
         ELSE [st |-> "ok", out |-> flatten(batch_res)]
    /\ batch_res' = <<>>
    /\ collected' =
         [causes |-> {batch_res[b].cause : b \in {c \in DOMAIN batch_res :
                                                   batch_res[c].st = "err"}},
          produced |-> Len(flatten(batch_res))]
    /\ UNCHANGED <<notplp, sites, batch_window_size, columns, pileup_errors,
                   batched_regions>>

NextPLP ==
    \/ PlpBatch
    \/ \E b \in BatchIds : PlpMap(b)
    \/ PlpCollect

SpecPLP == InitPLP /\ [][NextPLP]_vars

\* The same call over an archive whose pile-up iterator yields an error
\* item at one position, every other position being covered.
InitPLPErr ==
    /\ PrpIdle
    /\ RegionIdle
    /\ PbsIdle
    /\ BdIdle
    /\ sites \in SiteLists
    /\ columns = 0..(MaxPos - 1)
    /\ batch_window_size \in 1..MaxWin
    /\ \E q \in 0..(MaxPos - 1) : pileup_errors = {q}
    /\ ppc = "batch"
    /\ batched_regions = <<>>
    /\ batch_res = <<>>
    /\ plp_result = [st |-> "none", out |-> <<>>]
    /\ collected = [causes |-> {}, produced |-> 0]

SpecPLPErr == InitPLPErr /\ [][NextPLP]_vars

\* ----------------------------------------------------------- batch_region
\* A region list with the identity of each item (its place in the list).
TaggedRegions(rs) ==
    [k \in 1..Len(rs) |->
        [contig |-> rs[k][1], start |-> rs[k][2][1], end |-> rs[k][2][2], id |-> k]]

\* The region lists: regions (contig, start, end) with start < end, in
\* any order.
RegionLists ==
    {TaggedRegions(rs) :
        rs \in SeqsUpTo(Contigs \X {se \in (0..MaxEnd) \X (0..MaxEnd) : se[1] < se[2]},
                        MaxRegions)}

\* same_region_batch with the region's start in place of its end.
same_region_batch_by_start(c_contig, c_start, gr, window_size) ==
    c_contig = gr.contig /\ gr.start - c_start < window_size

\* c_contig == gr.contig && gr.end - c_start < window_size as i64
same_region_batch(c_contig, c_start, gr, window_size) ==
    c_contig = gr.contig /\ gr.end - c_start < window_size

\* for gr in gr_iter { .. }, then the last batch.
RECURSIVE region_loop(_, _, _, _, _, _, _)
region_loop(input_, k, c_contig, c_start, c_vec, res, window_size) ==
    IF k > Len(input_)
    THEN IF c_vec # <<>> THEN Append(res, c_vec) ELSE res
    ELSE LET gr == input_[k]
         IN IF same_region_batch(c_contig, c_start, gr, window_size)
            THEN region_loop(input_, k + 1, c_contig, c_start,
                             Append(c_vec, gr), res, window_size)
            ELSE region_loop(input_, k + 1, gr.contig, gr.start,
                             <<gr>>, Append(res, c_vec), window_size)

batch_region(input_, window_size) ==
    IF input_ = <<>>
    THEN <<>>
    ELSE region_loop(input_, 2, input_[1].contig, input_[1].start,
                     <<input_[1]>>, <<>>, window_size)

InitRegion ==
    /\ PrpIdle
    /\ PlpIdle
    /\ PbsIdle
    /\ BdIdle
    /\ regions \in RegionLists
    /\ region_window_size \in 1..MaxRegionWin
    /\ gpc = "call"
    /\ region_batches = <<>>

\* let batches = batch_region(regions.into_iter(), window_size);
RegionBatch ==
    /\ gpc = "call"
    /\ region_batches' = batch_region(regions, region_window_size)
    /\ gpc' = "done"
    /\ UNCHANGED <<notregion, regions, region_window_size>>

NextRegion == RegionBatch

SpecRegion == InitRegion /\ [][NextRegion]_vars

\* ---------------------------------------------------------------- BaseArr
\* ASCII bytes.
b_A == 65
b_C == 67
b_G == 71
b_N == 78
b_T == 84
b_Z == 90
b_a == 97
b_c == 99
b_g == 103
b_n == 110
b_t == 116

n_bases_in_u64_chunk == 21
n_bases_in_u16_chunk == 5

NULL_CODE == 0
A_CODE == 1
T_CODE == 2
C_CODE == 3
G_CODE == 4
N_CODE == 5

\* The 0xFF of build_lookup_table.
ERR_SENTINEL == 255

ChunkTypes == {"u16", "u64"}

n_bases_in_chunk(ty) ==
    IF ty = "u64" THEN n_bases_in_u64_chunk ELSE n_bases_in_u16_chunk

\* The width of a chunk in bits.
BITS(ty) == IF ty = "u64" THEN 64 ELSE 16

\* An unsigned integer of w bits is the function from bit index (0 the
\* least significant) to bit.
zero(w) == [i \in 0..(w - 1) |-> 0]

\* `code as $type` for a u8 code.
as_chunk(code, w) ==
    [i \in 0..(w - 1) |-> IF i < 8 THEN (code \div (2 ^ i)) % 2 ELSE 0]

\* x << k and x >> k, for k below the width.
shl(x, k, w) == [i \in 0..(w - 1) |-> IF i >= k THEN x[i - k] ELSE 0]
shr(x, k, w) == [i \in 0..(w - 1) |-> IF i + k < w THEN x[i + k] ELSE 0]

bit_or(x, y, w) == [i \in 0..(w - 1) |-> IF x[i] = 1 \/ y[i] = 1 THEN 1 ELSE 0]
bit_and(x, y, w) == [i \in 0..(w - 1) |-> IF x[i] = 1 /\ y[i] = 1 THEN 1 ELSE 0]

\* The number held by an integer that has passed `& 0b111`.
low3(x) == x[0] + 2 * x[1] + 4 * x[2]

\* build_lookup_table: every entry is 0xFF but those of b'A', b'T', b'C',
\* b'G', b'N'.
BYTE_TO_CODE_LOOKUP(byte) ==
    CASE byte = b_A -> A_CODE
      [] byte = b_T -> T_CODE
      [] byte = b_C -> C_CODE
      [] byte = b_G -> G_CODE
      [] byte = b_N -> N_CODE
      [] OTHER -> ERR_SENTINEL

\* CODE_TO_CHAR_LOOKUP, an array of 6 chars; entry 0 is the char 0.
CODE_TO_CHAR_LOOKUP ==
    [code \in 0..5 |->
        CASE code = A_CODE -> b_A
          [] code = T_CODE -> b_T
          [] code = C_CODE -> b_C
          [] code = G_CODE -> b_G
          [] code = N_CODE -> b_N
          [] OTHER -> 0]

Min(a, b) == IF a < b THEN a ELSE b

\* for (offset, &byte) in chunk.iter().enumerate() { .. }: the packed
\* chunk, or the offset and the byte that the table does not know.
RECURSIVE pack_chunk(_, _, _, _)
pack_chunk(chunk, offset, current, w) ==
    IF offset >= Len(chunk)
    THEN [st |-> "ok", chunk |-> current]
    ELSE LET byte == chunk[offset + 1]
             code == BYTE_TO_CODE_LOOKUP(byte)
         IN IF code = ERR_SENTINEL
            THEN [st |-> "Invalid", byte |-> byte, offset |-> offset]
            ELSE pack_chunk(chunk, offset + 1,
                            bit_or(current, shl(as_chunk(code, w), offset * 3, w), w), w)

\* for (chunk_idx, chunk) in s.chunks(n_bases_in_chunk).enumerate() { .. }
RECURSIVE from_bytes_loop(_, _, _, _, _)
from_bytes_loop(s, chunk_idx, inner, per, w) ==
    IF chunk_idx * per >= Len(s)
    THEN [st |-> "Ok", inner |-> inner]
    ELSE LET chunk == SubSeq(s, chunk_idx * per + 1, Min((chunk_idx + 1) * per, Len(s)))
             packed == pack_chunk(chunk, 0, zero(w), w)
         IN IF packed.st = "Invalid"
            THEN [st |-> "Invalid", byte |-> packed.byte,
                  position |-> chunk_idx * per + packed.offset]
            ELSE from_bytes_loop(s, chunk_idx + 1,
                                 [inner EXCEPT ![chunk_idx] = packed.chunk], per, w)

\* BaseArr::<ty, n>::from_bytes(s)
from_bytes(ty, n, s) ==
    LET per == n_bases_in_chunk(ty)
        max_len == n * per
    IN IF Len(s) > max_len
       THEN [st |-> "TooLong", len |-> Len(s), max |-> max_len]
       ELSE from_bytes_loop(s, 0, [c \in 0..(n - 1) |-> zero(BITS(ty))], per, BITS(ty))

\* for i in 0..n_bases_in_chunk { if let Some(byte) = iter.next() { .. }
\* else { break } }: p bytes of s are consumed so far.
RECURSIVE from_iter_chunk(_, _, _, _, _, _, _)
from_iter_chunk(s, p, i, current_u64, chunk_idx, per, w) ==
    IF i >= per \/ p >= Len(s)
    THEN [st |-> "ok", chunk |-> current_u64, p |-> p]
    ELSE LET byte == s[p + 1]
             code == BYTE_TO_CODE_LOOKUP(byte)
         IN IF code = ERR_SENTINEL
            THEN [st |-> "Invalid", byte |-> byte, position |-> chunk_idx * per + i]
            ELSE from_iter_chunk(s, p + 1, i + 1,
                                 bit_or(current_u64, shl(as_chunk(code, w), i * 3, w), w),
                                 chunk_idx, per, w)

\* for chunk_idx in 0..N { if iter.peek().is_none() { break } .. }, then
\* the check that the iterator is exhausted.
RECURSIVE from_iter_loop(_, _, _, _, _, _, _)
from_iter_loop(s, p, chunk_idx, inner, n, per, w) ==
    IF chunk_idx >= n \/ p >= Len(s)
    THEN IF p < Len(s)
         THEN [st |-> "TooLong", max |-> n * per]
         ELSE [st |-> "Ok", inner |-> inner]
    ELSE LET packed == from_iter_chunk(s, p, 0, zero(w), chunk_idx, per, w)
         IN IF packed.st = "Invalid"
            THEN [st |-> "Invalid", byte |-> packed.byte, position |-> packed.position]
            ELSE from_iter_loop(s, packed.p, chunk_idx + 1,
                                [inner EXCEPT ![chunk_idx] = packed.chunk], n, per, w)

\* BaseArr::<ty, n>::from_iter(s.iter().copied())
from_iter(ty, n, s) ==
    from_iter_loop(s, 0, 0, [c \in 0..(n - 1) |-> zero(BITS(ty))], n,
                   n_bases_in_chunk(ty), BITS(ty))

\* Display::fmt: the slots of the chunks in order (g counts them), up to
\* the first NULL; an index outside CODE_TO_CHAR_LOOKUP panics.
RECURSIVE fmt(_, _, _, _, _)
fmt(ty, n, inner, g, out) ==
    LET per == n_bases_in_chunk(ty)
        w == BITS(ty)
    IN IF g >= n * per
       THEN [st |-> "Ok", text |-> out]
       ELSE LET chunk == inner[g \div per]
                i == g % per
                code == low3(bit_and(shr(chunk, i * 3, w), as_chunk(7, w), w))
            IN IF code = NULL_CODE
               THEN [st |-> "Ok", text |-> out]
               ELSE IF code \notin DOMAIN CODE_TO_CHAR_LOOKUP
                    THEN [st |-> "panic", text |-> out]
                    ELSE fmt(ty, n, inner, g + 1, Append(out, CODE_TO_CHAR_LOOKUP[code]))

\* ToString over Display.
to_string(ty, n, inner) == fmt(ty, n, inner, 0, <<>>)

\* enum Base { A, T, C, G, N }; `base as usize` is the place in the list.
Base == <<"A", "T", "C", "G", "N">>
Base_as_usize(base) == (CHOOSE k \in 1..Len(Base) : Base[k] = base) - 1

\* Base::BYTE_TO_BASE_TABLE: None but at b'A', b'T', b'C', b'G', b'N'.
BYTE_TO_BASE_TABLE(byte) ==
    CASE byte = b_A -> "A"
      [] byte = b_T -> "T"
      [] byte = b_C -> "C"
      [] byte = b_G -> "G"
      [] byte = b_N -> "N"
      [] OTHER -> "None"

\* CODE_TO_BASE_LOOKUP, an array of 6 options; entry 0 is None.
CODE_TO_BASE_LOOKUP ==
    [code \in 0..5 |->
        CASE code = A_CODE -> "A"
          [] code = T_CODE -> "T"
          [] code = C_CODE -> "C"
          [] code = G_CODE -> "G"
          [] code = N_CODE -> "N"
          [] OTHER -> "None"]

\* BaseArrIndex for usize: get. An index outside CODE_TO_BASE_LOOKUP
\* panics.
get(ty, n, inner, index) ==
    LET per == n_bases_in_chunk(ty)
        w == BITS(ty)
        idx == index \div per
        offset == index % per
    IN IF idx >= n
       THEN "None"
       ELSE LET code == low3(bit_and(shr(inner[idx], offset * 3, w), as_chunk(7, w), w))
            IN IF code \in DOMAIN CODE_TO_BASE_LOOKUP
               THEN CODE_TO_BASE_LOOKUP[code]
               ELSE "panic"

\* BASE_TO_CODE_TABLE, an array of 8 chunk values read at `base as usize`.
BASE_TO_CODE_TABLE ==
    [k \in 0..7 |->
        CASE k = Base_as_usize("A") -> A_CODE
          [] k = Base_as_usize("T") -> T_CODE
          [] k = Base_as_usize("C") -> C_CODE
          [] k = Base_as_usize("G") -> G_CODE
          [] k = Base_as_usize("N") -> N_CODE
          [] OTHER -> 0]

\* !x
bit_not(x, w) == [i \in 0..(w - 1) |-> 1 - x[i]]

\* set that clears the slot and every slot above it in the chunk.
set_clears_above(ty, n, inner, index, new_base) ==
    LET per == n_bases_in_chunk(ty)
        w == BITS(ty)
        idx == index \div per
        offset == index % per
    IN IF idx >= n
       THEN [st |-> "panic", inner |-> inner]
       ELSE LET bit_pos == offset * 3
                clear_mask == bit_not(shl(bit_not(zero(w), w), bit_pos, w), w)
                cleared == bit_and(inner[idx], clear_mask, w)
                new_code == as_chunk(BASE_TO_CODE_TABLE[Base_as_usize(new_base)], w)
            IN [st |-> "Ok",
                inner |-> [inner EXCEPT ![idx] = bit_or(cleared, shl(new_code, bit_pos, w), w)]]

\* set without the clearing of the slot.
set_no_clear(ty, n, inner, index, new_base) ==
    LET per == n_bases_in_chunk(ty)
        w == BITS(ty)
        idx == index \div per
        offset == index % per
    IN IF idx >= n
       THEN [st |-> "panic", inner |-> inner]
       ELSE LET bit_pos == offset * 3
                new_code == as_chunk(BASE_TO_CODE_TABLE[Base_as_usize(new_base)], w)
            IN [st |-> "Ok",
                inner |-> [inner EXCEPT ![idx] = bit_or(inner[idx], shl(new_code, bit_pos, w), w)]]

\* BaseArr::set: panics on an index past the last chunk, else clears the
\* three bits of the slot and ors the new code in.
set(ty, n, inner, index, new_base) ==
    LET per == n_bases_in_chunk(ty)
        w == BITS(ty)
        idx == index \div per
        offset == index % per
    IN IF idx >= n
       THEN [st |-> "panic", inner |-> inner]
       ELSE LET bit_pos == offset * 3
                clear_mask == bit_not(shl(as_chunk(7, w), bit_pos, w), w)
                cleared == bit_and(inner[idx], clear_mask, w)
                new_code == as_chunk(BASE_TO_CODE_TABLE[Base_as_usize(new_base)], w)
            IN [st |-> "Ok",
                inner |-> [inner EXCEPT ![idx] = bit_or(cleared, shl(new_code, bit_pos, w), w)]]

\* The bytes that from_bytes is given: the ten nucleotide letters and one
\* byte that is none of them.
NucleotideBytes == {b_A, b_C, b_G, b_T, b_N, b_a, b_c, b_g, b_t, b_n}
Bytes == NucleotideBytes \cup {b_Z}

\* A valid upper-case string of the given length: ATCGNATCGN...
Padding(len) ==
    [k \in 1..len |-> <<b_A, b_T, b_C, b_G, b_N>>[((k - 1) % 5) + 1]]

\* The lengths of padding that bring the free bytes to the start of the
\* array, to the end of its first chunk and to the end of its capacity.
PadLens(ty, n) ==
    {0, n_bases_in_chunk(ty) - 1, n * n_bases_in_chunk(ty) - 1}

\* to_ascii_uppercase on every byte.
upper(s) ==
    [k \in 1..Len(s) |-> IF s[k] >= b_a /\ s[k] <= 122 THEN s[k] - 32 ELSE s[k]]

InitPBS ==
    /\ PrpIdle
    /\ PlpIdle
    /\ RegionIdle
    /\ BdIdle
    /\ pbs_type \in ChunkTypes
    /\ pbs_n \in 1..MaxChunks
    /\ \E pad \in PadLens(pbs_type, pbs_n) : \E tail \in SeqsUpTo(Bytes, MaxTail) :
         pbs_s = Padding(pad) \o tail
    /\ pbs_arr = [st |-> "none"]
    /\ pbs_text = [st |-> "none"]
    /\ bpc = "call"
    /\ pbs_got = [st |-> "none"]
    /\ pbs_sets = <<>>
    /\ pbs_prev = [st |-> "none"]
    /\ pbs_iter = [st |-> "none"]
    /\ it = [st |-> "none"]
    /\ it_log = <<>>

\* let arr = BaseArr::<ty, n>::from_bytes(s);
PbsFromBytes ==
    /\ bpc = "call"
    /\ pbs_arr' = from_bytes(pbs_type, pbs_n, pbs_s)
    /\ bpc' = IF pbs_arr'.st = "Ok" THEN "built" ELSE "failed"
    /\ UNCHANGED <<notpbs, pbs_type, pbs_n, pbs_s, pbs_text, pbs_got, pbs_sets, pbs_prev>>

\* let arr2 = BaseArr::<ty, n>::from_iter(s.iter().copied());
PbsFromIter ==
    /\ bpc # "idle"
    /\ pbs_iter.st = "none"
    /\ pbs_iter' = from_iter(pbs_type, pbs_n, pbs_s)
    /\ UNCHANGED <<notbasearr, pbsvars, it, it_log>>

\* arr.to_string()
PbsToString ==
    /\ bpc = "built"
    /\ pbs_text' = to_string(pbs_type, pbs_n, pbs_arr.inner)
    /\ bpc' = "shown"
    /\ UNCHANGED <<notpbs, pbs_type, pbs_n, pbs_s, pbs_arr, pbs_got, pbs_sets, pbs_prev>>

\* The indices handed to get: every slot of the array and two past it.
GetIdx == 0..(MaxChunks * n_bases_in_u64_chunk + 1)

\* arr.get(index)
PbsGet(index) ==
    /\ bpc = "built"
    /\ index <= pbs_n * n_bases_in_chunk(pbs_type) + 1
    /\ pbs_got' = [st |-> "got", index |-> index,
                   res |-> get(pbs_type, pbs_n, pbs_arr.inner, index)]
    /\ UNCHANGED <<notpbs, pbs_type, pbs_n, pbs_s, pbs_arr, pbs_text, bpc, pbs_sets, pbs_prev>>

\* The strings of the arrays that set is called on: ATCGN.. of one byte,
\* of a chunk less one, of a chunk and one, and of the whole capacity.
SetLens(ty, n) ==
    {1, n_bases_in_chunk(ty) - 1, n_bases_in_chunk(ty) + 1, n * n_bases_in_chunk(ty)}

\* The indices handed to set: the first slot, the last slot of the first
\* chunk, the slot after it, the first slot past the string, and C.
SetIdx(ty, n, len) ==
    {0, n_bases_in_chunk(ty) - 1, n_bases_in_chunk(ty), len, n * n_bases_in_chunk(ty)}

InitSet ==
    /\ PrpIdle
    /\ PlpIdle
    /\ RegionIdle
    /\ BdIdle
    /\ pbs_type \in ChunkTypes
    /\ pbs_n \in 1..MaxChunks
    /\ \E len \in SetLens(pbs_type, pbs_n) : pbs_s = Padding(len)
    /\ pbs_arr = [st |-> "none"]
    /\ pbs_text = [st |-> "none"]
    /\ bpc = "call"
    /\ pbs_got = [st |-> "none"]
    /\ pbs_sets = <<>>
    /\ pbs_prev = [st |-> "none"]
    /\ pbs_iter = [st |-> "none"]
    /\ it = [st |-> "none"]
    /\ it_log = <<>>

\* arr.set(index, new_base); a panic ends the caller.
PbsSet(index, new_base) ==
    /\ bpc = "built"
    /\ Len(pbs_sets) < MaxSets
    /\ index \in SetIdx(pbs_type, pbs_n, Len(pbs_s))
    /\ LET r == set(pbs_type, pbs_n, pbs_arr.inner, index, new_base)
       IN /\ pbs_arr' = [pbs_arr EXCEPT !.inner = r.inner]
          /\ bpc' = IF r.st = "panic" THEN "panicked" ELSE "built"
    /\ pbs_prev' = pbs_arr
    /\ pbs_sets' = Append(pbs_sets, [index |-> index, base |-> new_base])
    /\ UNCHANGED <<notpbs, pbs_type, pbs_n, pbs_s, pbs_text, pbs_got>>

NextSet ==
    \/ PbsFromBytes
    \/ \E index \in GetIdx : \E k \in 1..5 : PbsSet(index, Base[k])

SpecSet == InitSet /\ [][NextSet]_vars

\* BaseArrIter::new(arr, start, end)
BaseArrIter_new(ty, n, start, end) ==
    [chunk_index |-> start \div n_bases_in_chunk(ty),
     offset_in_chunk |-> start % n_bases_in_chunk(ty),
     total_index |-> start,
     end_index |-> Min(end, n * n_bases_in_chunk(ty))]

\* get_iter over Range, RangeFrom, RangeTo and RangeFull; the last is
\* iter(), BaseArrIter::new(0, C).
get_iter(ty, n, kind, start, end) ==
    CASE kind = "Range" -> BaseArrIter_new(ty, n, start, end)
      [] kind = "RangeFrom" -> BaseArrIter_new(ty, n, start, n * n_bases_in_chunk(ty))
      [] kind = "RangeTo" -> BaseArrIter_new(ty, n, 0, end)
      [] kind = "RangeFull" -> BaseArrIter_new(ty, n, 0, n * n_bases_in_chunk(ty))

\* next that goes on after a NULL code.
BaseArrIter_next_no_stop(ty, n, inner, i) ==
    IF i.total_index >= i.end_index
    THEN [it |-> i, ret |-> "None"]
    ELSE LET per == n_bases_in_chunk(ty)
             w == BITS(ty)
             i1 == IF i.offset_in_chunk >= per
                   THEN [i EXCEPT !.chunk_index = @ + 1, !.offset_in_chunk = 0]
                   ELSE i
         IN IF i1.chunk_index >= n
            THEN [it |-> i1, ret |-> "None"]
            ELSE LET chunk == inner[i1.chunk_index]
                     code == low3(bit_and(shr(chunk, i1.offset_in_chunk * 3, w), as_chunk(7, w), w))
                     i2 == [i1 EXCEPT !.offset_in_chunk = @ + 1, !.total_index = @ + 1]
                 IN IF code \notin DOMAIN CODE_TO_BASE_LOOKUP
                    THEN [it |-> i2, ret |-> "panic"]
                    ELSE [it |-> i2, ret |-> CODE_TO_BASE_LOOKUP[code]]

\* Iterator::next of BaseArrIter: the iterator after the call and what the
\* call returned; an index outside CODE_TO_BASE_LOOKUP panics.
BaseArrIter_next(ty, n, inner, i) ==
    IF i.total_index >= i.end_index
    THEN [it |-> i, ret |-> "None"]
    ELSE LET per == n_bases_in_chunk(ty)
             w == BITS(ty)
             i1 == IF i.offset_in_chunk >= per
                   THEN [i EXCEPT !.chunk_index = @ + 1, !.offset_in_chunk = 0]
                   ELSE i
         IN IF i1.chunk_index >= n
            THEN [it |-> i1, ret |-> "None"]
            ELSE LET chunk == inner[i1.chunk_index]
                     code == low3(bit_and(shr(chunk, i1.offset_in_chunk * 3, w), as_chunk(7, w), w))
                     i2 == [i1 EXCEPT !.offset_in_chunk = @ + 1, !.total_index = @ + 1]
                 IN IF code \notin DOMAIN CODE_TO_BASE_LOOKUP
                    THEN [it |-> i2, ret |-> "panic"]
                    ELSE IF CODE_TO_BASE_LOOKUP[code] = "None"
                         THEN [it |-> [i2 EXCEPT !.end_index = 0], ret |-> "None"]
                         ELSE [it |-> i2, ret |-> CODE_TO_BASE_LOOKUP[code]]

\* The ranges handed to get_iter: one inside the first chunk and over its
\* border, one from the last slot of the first chunk, one whose start is
\* past its end, one whose end is past C, and a start past C.
IterRanges(ty, n) ==
    LET per == n_bases_in_chunk(ty)
        C == n * per
    IN {<<"Range", 0, per + 1>>, <<"Range", per - 1, per + 1>>, <<"Range", per + 1, 1>>,
        <<"Range", 1, C + 1>>, <<"RangeFrom", per - 1, 0>>, <<"RangeFrom", C + 1, 0>>,
        <<"RangeTo", 0, per + 1>>, <<"RangeFull", 0, 0>>}

\* arr.set(index, new_base) on an array that is not yet iterated; the
\* iteration is checked with N as the base written.
PbsSetOnce(index, new_base) ==
    /\ Len(pbs_sets) < MaxIterSets
    /\ it.st = "none"
    /\ PbsSet(index, new_base)

\* let mut it = arr.get_iter(range);
PbsGetIter ==
    /\ bpc = "built"
    /\ it.st = "none"
    /\ \E r \in IterRanges(pbs_type, pbs_n) :
         it' = [st |-> "iter", kind |-> r[1], start |-> r[2], end |-> r[3],
                f |-> get_iter(pbs_type, pbs_n, r[1], r[2], r[3])]
    /\ it_log' = <<>>
    /\ UNCHANGED <<notbasearr, pbsvars, pbs_iter>>

\* The calls of next that returned none so far.
Nones(log) == Cardinality({k \in 1..Len(log) : log[k] = "None"})

\* it.next(); a panic ends the caller.
PbsIterNext ==
    /\ it.st = "iter"
    /\ Nones(it_log) <= MaxExtra
    /\ LET r == BaseArrIter_next(pbs_type, pbs_n, pbs_arr.inner, it.f)
       IN /\ it' = [it EXCEPT !.f = r.it, !.st = IF r.ret = "panic" THEN "panicked" ELSE "iter"]
          /\ it_log' = Append(it_log, r.ret)
    /\ UNCHANGED <<notbasearr, pbsvars, pbs_iter>>

NextIter ==
    \/ PbsFromBytes
    \/ \E index \in GetIdx : PbsSetOnce(index, "N")
    \/ PbsGetIter
    \/ PbsIterNext

SpecIter == InitSet /\ [][NextIter]_vars

NextPBS ==
    \/ PbsFromBytes
    \/ PbsFromIter
    \/ PbsToString
    \/ \E index \in GetIdx : PbsGet(index)

SpecPBS == InitPBS /\ [][NextPBS]_vars

\* ------------------------------------------------------------ BatchedData
\* BatchedData::from_vec(v); new and with_default give the vectors of one
\* repeated value.
from_vec(v) == [inner |-> v, next_item_idx |-> 0]

\* The values a new buffer holds and the values a caller writes.
InitVals == 0..1
WriteVals == 2..MaxVal

InitFill ==
    /\ PrpIdle
    /\ PlpIdle
    /\ RegionIdle
    /\ PbsIdle
    /\ bd_init \in SeqsUpTo(InitVals, MaxSlots)
    /\ bd = from_vec(bd_init)
    /\ bd_log = <<>>
    /\ BdNoCall

\* next_mut that hands out a slot whether or not the buffer is full.
BdNextMut_no_full_check(v) ==
    /\ Len(bd_log) < Len(bd.inner) + MaxExtra
    /\ bd' = [next_mut(bd) EXCEPT !.inner =
                 [k \in DOMAIN bd.inner |-> IF k = bd.next_item_idx + 1 THEN v ELSE bd.inner[k]]]
    /\ bd_log' = Append(bd_log, [ret |-> bd.next_item_idx, v |-> v])
    /\ UNCHANGED <<notbd, bd_init>>

\* if let Some(item) = batch.next_mut() { *item = v; }
\* The slot handed out is named by its 0-based index.
BdNextMut(v) ==
    /\ Len(bd_log) < Len(bd.inner) + MaxExtra
    /\ IF is_full(bd)
       THEN /\ bd' = bd
            /\ bd_log' = Append(bd_log, [ret |-> "None", v |-> v])
       ELSE /\ bd' = [next_mut(bd) EXCEPT !.inner[bd.next_item_idx + 1] = v]
            /\ bd_log' = Append(bd_log, [ret |-> bd.next_item_idx, v |-> v])
    /\ UNCHANGED <<notbd, bd_init>>

NextFill == \E v \in WriteVals : BdNextMut(v)

SpecFill == InitFill /\ [][NextFill]_vars

\* self.next_item_idx += 1
increment_idx(b) == [b EXCEPT !.next_item_idx = @ + 1]

\* &self.inner[..self.next_item_idx], of filled and of filled_mut: the
\* slice, or the panic of a range that ends past the vector.
filled_slice(b) ==
    IF b.next_item_idx > Len(b.inner)
    THEN [panic |-> TRUE, slice |-> <<>>]
    ELSE [panic |-> FALSE, slice |-> filled(b)]

\* modify_next(|x| { *x = v; }): the buffer after the call and whether f
\* was called.
modify_next(b, v) ==
    IF b.next_item_idx >= Len(b.inner)
    THEN [b |-> b, ret |-> <<>>]
    ELSE [b |-> increment_idx([b EXCEPT !.inner[b.next_item_idx + 1] = v]), ret |-> <<"unit">>]

\* The function handed to clear_with: every application of it to a slot
\* can be told from the slot's value.
ClearStep == MaxVal + 1
clear_f(x) == x + ClearStep

\* clear_with that maps the function over every slot.
clear_with_every_slot(b) ==
    [inner |-> [k \in DOMAIN b.inner |-> clear_f(b.inner[k])],
     next_item_idx |-> 0]

\* self.inner.iter_mut().take(self.next_item_idx).for_each(clear_f);
\* self.next_item_idx = 0;
clear_with(b) ==
    [inner |-> [k \in DOMAIN b.inner |->
                   IF k <= b.next_item_idx THEN clear_f(b.inner[k]) ELSE b.inner[k]],
     next_item_idx |-> 0]

\* The caller is running and has calls left.
CanCall == bd_n < MaxCalls /\ ~bd_call.panic

\* What every call does to the record of the calls.
Called(op, ret, panic) ==
    /\ bd_prev' = bd
    /\ bd_call' = [op |-> op, ret |-> ret, panic |-> panic, before |-> bd_call.op]
    /\ bd_n' = bd_n + 1
    /\ UNCHANGED <<notbatched, bd_init, bd_log>>

\* if let Some(item) = batch.next_mut() { *item = v; }
Call_next_mut(v) ==
    /\ CanCall
    /\ IF is_full(bd)
       THEN bd' = bd /\ Called("next_mut", <<>>, FALSE)
       ELSE /\ bd' = [next_mut(bd) EXCEPT !.inner[bd.next_item_idx + 1] = v]
            /\ Called("next_mut", <<bd.next_item_idx>>, FALSE)

\* batch.increment_idx();
Call_increment_idx ==
    /\ CanCall
    /\ bd' = increment_idx(bd)
    /\ Called("increment_idx", <<>>, FALSE)

\* batch.modify_next(|x| { *x = v; });
Call_modify_next(v) ==
    /\ CanCall
    /\ bd' = modify_next(bd, v).b
    /\ Called("modify_next", modify_next(bd, v).ret, FALSE)

\* batch.filled() or batch.filled_mut(); a panic ends the caller.
Call_filled ==
    /\ CanCall
    /\ bd' = bd
    /\ Called("filled", filled_slice(bd).slice, filled_slice(bd).panic)

\* batch.clear_with(clear_f);
Call_clear_with ==
    /\ CanCall
    /\ bd' = clear_with(bd)
    /\ Called("clear_with", <<>>, FALSE)

\* batch.reset_index();
Call_reset_index ==
    /\ CanCall
    /\ bd' = reset_index(bd)
    /\ Called("reset_index", <<>>, FALSE)

NextBd ==
    \/ \E v \in WriteVals : Call_next_mut(v)
    \/ Call_increment_idx
    \/ \E v \in WriteVals : Call_modify_next(v)
    \/ Call_filled
    \/ Call_clear_with
    \/ Call_reset_index

SpecBd == InitFill /\ [][NextBd]_vars

\* ------------------------------------------------------ derived notions
RECURSIVE SelectIdx(_, _, _)
SelectIdx(inp, k, kind) ==
    IF k > Len(inp) THEN <<>>
    ELSE (IF inp[k] = kind THEN <<k>> ELSE <<>>) \o SelectIdx(inp, k + 1, kind)

\* The input records for which modify_record returns Some(()), in reader order.
KeptRecords == SelectIdx(input, 1, "keep")

\* The records of the output archive, in write order.
OutRecords == [k \in 1..Len(output) |-> output[k].rec]

NoReadError == \A k \in 1..Len(input) : input[k] # "rerr"

NoThreadFailed ==
    /\ rpc \notin {"err", "panic"}
    /\ \A w \in 1..MaxWorkers : wpc[w] \notin {"err", "panic"}
    /\ wrpc \notin {"err", "panic"}

Returned(r) == mpc = "done" /\ result = r

\* Batches outside the writer's ordered map.
NonParked ==
    Len(tx_buf) + Len(tx_read) + Len(tx_worker)
    + (IF rpc = "send" THEN 1 ELSE 0)
    + Cardinality({w \in 1..MaxWorkers : wpc[w] = "send"})
    + (IF wrpc = "send" THEN 1 ELSE 0)

Parked == Cardinality(DOMAIN ordered_buf_map)

InOutput(k) == \E j \in 1..Len(output) : output[j].rec = k

\* ------------------------------------------------------------------ claims

\* C1 (PRP order preservation): when process_bam returns success over an
\* input whose records all read successfully, the records of the output
\* are exactly the input records for which modify_record returned
\* Some(()), in reader order, each once.
C1_OrderPreservation ==
    (Returned("ok") /\ NoReadError) => OutRecords = KeptRecords

\* C2 (P1 write order): the sequence indices carried by the records the
\* writer has written are strictly increasing in write order.
C2_WriteOrder ==
    NoReadError =>
        \A a \in 1..Len(output) : \A b \in 1..Len(output) :
            a < b => output[a].idx < output[b].idx

\* C3 (no data loss): when process_bam has returned and no thread failed,
\* every record that was read and kept by the modifier is in the output.
C3_NoDataLoss ==
    (Returned("ok") /\ NoThreadFailed /\ NoReadError) =>
        \A k \in 1..Len(input) : input[k] = "keep" => InOutput(k)

\* C4 (DataWithIndex sequence): the filled slots the reader has enqueued to
\* tx_read carry, in enqueue and slot order, the indices 0,1,2,.. without
\* gap or duplicate, each slot was loaded with a record during its fill,
\* and once the reader is done there are as many of them as records read.
C4_IndexSequence ==
    /\ \A k \in 1..Len(sent) : sent[k].idx = k - 1 /\ sent[k].loaded
    /\ rpc = "ok" => Len(sent) = ri

\* How far each thread and each batch is from the end of the run.
ReaderRank ==
    CASE rpc = "open" -> 2 * Len(input) + 4
      [] rpc = "take" -> 2 * (Len(input) - pos) + 3
      [] rpc = "send" -> IF reof THEN 1 ELSE 2 * (Len(input) - pos) + 4
      [] OTHER -> 0

WorkerRank(w) == IF wpc[w] \in {"recv", "send"} THEN 1 ELSE 0

RECURSIVE SumWorkerRank(_)
SumWorkerRank(w) == IF w = 0 THEN 0 ELSE WorkerRank(w) + SumWorkerRank(w - 1)

WriterRank ==
    CASE wrpc = "open" -> 3
      [] wrpc \in {"recv", "send"} -> 2
      [] wrpc = "drain" -> 1
      [] OTHER -> 0

MainRank ==
    CASE mpc = "join_reader" -> worker_thread + 3
      [] mpc = "join_worker" -> worker_thread - mj + 3
      [] mpc = "join_writer" -> 2
      [] mpc \in {"scope_wait", "scope_end"} -> 1
      [] OTHER -> 0

BatchRank ==
    5 * Len(tx_read)
    + 4 * Cardinality({w \in 1..MaxWorkers : wpc[w] = "send"})
    + 3 * Len(tx_worker)
    + (IF wrpc = "send" THEN 1 ELSE 0)
    + Parked

\* A measure of the work left: every step of every thread lowers it.
Variant ==
    6 * ReaderRank + SumWorkerRank(MaxWorkers) + WriterRank + MainRank + BatchRank

WriterWroteHead ==
    /\ wrpc = "recv"
    /\ wrpc' = "send"
    /\ tx_worker # <<>>
    /\ ~is_empty(Head(tx_worker))
    /\ Head(tx_worker).inner[1].idx = wi

\* C7 (PRP drop semantics): a record for which modify_record returns
\* Ok(None) or Err is never in the output, and the writer advances its
\* counter by every filled slot of a batch it goes through, written or not.
C7_DropSemantics ==
    /\ [](\A j \in 1..Len(output) :
            output[j].rec # default_record /\ input[output[j].rec] = "keep")
    /\ [][WriterWroteHead =>
            /\ wi' = wi + Head(tx_worker).next_item_idx
            /\ Len(output') - Len(output) = NumWrites(Head(tx_worker))]_vars

W7_DroppedThenWritten ==
    /\ Returned("ok")
    /\ \E k \in 1..Len(input) : \E j \in 1..Len(input) :
         /\ k < j
         /\ input[k] = "drop"
         /\ input[j] = "keep"
         /\ ~InOutput(k)
         /\ InOutput(j)

\* What the worker is to leave in a slot: the record, or the default
\* record when the modifier dropped it or failed on it.
SlotAfterWorker(slot) ==
    IF slot.rec # default_record /\ input[slot.rec] # "keep"
    THEN DataWithIndex_new(default_record, slot.idx)
    ELSE slot

C9_ReadErrorSkipped ==
    (Returned("ok") /\ ~NoReadError) =>
        /\ \A k \in 1..Len(input) : \A j \in 1..Len(input) :
             (k < j /\ input[k] = "rerr" /\ input[j] = "keep") => InOutput(j)
        /\ \A j \in 1..Len(handled) : handled[j].written => handled[j].idx = j - 1

\* C10 (writer I/O error is fatal and propagated): once the writer thread
\* has stopped on an I/O error it stays stopped, some thread can take a
\* step until the call has ended, every step lowers the measure of the
\* work left (so that no thread waits on a queue for ever), and the call
\* ends with every thread exited and with an error.
C10_WriterErrorPropagated ==
    /\ [][wrpc = "err" => (wrpc' = "err" /\ Variant' < Variant)]_vars
    /\ []((wrpc = "err" /\ mpc # "done") => ENABLED Next)
    /\ []((wrpc = "err" /\ mpc = "done") => (AllThreadsExited /\ result = "err"))

W10_WriteFailed ==
    /\ mpc = "done"
    /\ wrpc = "err"
    /\ result = "err"
    /\ output # <<>>

\* C11 (worker panic is converted): when process_bam's call has ended
\* after a worker thread panicked, the call returned an error value (the
\* panic did not unwind into the caller).
C11_WorkerPanicConverted ==
    (mpc = "done" /\ \E w \in 1..MaxWorkers : wpc[w] = "panic") => result = "err"

\* ------------------------------------------- notions for process_with_batch
OutIds(out) == [k \in 1..Len(out) |-> out[k].site.id]

\* What a worker that returns the site's pos makes of the matches.
OutPos(out) == [k \in 1..Len(out) |-> out[k].site.pos]

StrictlyIncreasing(q) == \A k \in 1..(Len(q) - 1) : q[k] < q[k + 1]

SeqRange(q) == {q[k] : k \in 1..Len(q)}

\* The archive has a pile-up column at the site's position.
Covered(site) == (site.pos - 1) \in columns

\* The pile-up stream of batch b.
StreamOf(b) ==
    pileups(columns, pileup_errors, batched_regions[b][1].pos - 1,
            batched_regions[b][Len(batched_regions[b])].pos)

RECURSIVE ConcatAll(_)
ConcatAll(bs) == IF bs = <<>> THEN <<>> ELSE Head(bs) \o ConcatAll(Tail(bs))

\* The batch that holds the k-th site of the input.
BatchOf(k) ==
    CHOOSE b \in DOMAIN batched_regions :
        \E j \in DOMAIN batched_regions[b] : batched_regions[b][j].id = k

Collecting == ppc = "map" /\ ppc' = "done"

\* C12 (PLP ordering under parallelism): whatever the order in which the
\* pool runs the batches, the results of a batch come from sites of that
\* batch in site order, the collect concatenates the per-batch results in
\* batch order, and the sites that produced the returned list are a
\* subsequence of the input.
C12_PLPOrdering ==
    /\ [](\A b \in DOMAIN batch_res :
            /\ StrictlyIncreasing(OutIds(batch_res[b].res))
            /\ \A k \in 1..Len(batch_res[b].res) :
                 batch_res[b].res[k].site \in SeqRange(batched_regions[b]))
    /\ [][(Collecting /\ plp_result'.st = "ok") =>
            plp_result'.out = concat_res(batch_res)]_vars
    /\ [](plp_result.st = "ok" =>
            /\ StrictlyIncreasing(OutIds(plp_result.out))
            /\ \A k \in 1..Len(plp_result.out) :
                 /\ plp_result.out[k].site.id \in 1..Len(sites)
                 /\ plp_result.out[k].site = sites[plp_result.out[k].site.id])

W12_TwoBatchesInOrder ==
    /\ ppc = "done"
    /\ plp_result.st = "ok"
    /\ Len(plp_result.out) >= 2
    /\ Len(plp_result.out) < Len(sites)
    /\ BatchOf(plp_result.out[1].site.id) # BatchOf(plp_result.out[2].site.id)

\* C13 (PLP sweep-line match rule): in the sweep of a batch every
\* comparison is made at the two cursors, starting from the first column
\* and the first site; a column before site.pos - 1 advances the column
\* cursor only, a column after it advances the site cursor only, and a
\* column at site.pos - 1 advances both; work_for_locus is invoked on
\* exactly the pairs that compared equal, so only with
\* column.pos = site.pos - 1.
C13_SweepRule ==
    \A b \in DOMAIN batch_res :
        batch_res[b].st = "ok" =>
            LET batch == batched_regions[b]
                stream == StreamOf(b)
                r == batch_res[b]
                n == Len(r.steps)
                eq == {k \in 1..n : r.steps[k].cmp = "Equal"}
            IN /\ n > 0 => (r.steps[1].ci = 1 /\ r.steps[1].si = 1)
               /\ \A k \in 1..n :
                    LET st == r.steps[k]
                        nci == IF k < n THEN r.steps[k + 1].ci ELSE r.ci
                        nsi == IF k < n THEN r.steps[k + 1].si ELSE r.si
                        col == stream[st.ci].pos
                        t == batch[st.si].pos - 1
                    IN /\ st.ci \in 1..Len(stream) /\ st.si \in 1..Len(batch)
                       /\ col < t => (st.cmp = "Less" /\ nci = st.ci + 1 /\ nsi = st.si)
                       /\ col > t => (st.cmp = "Greater" /\ nci = st.ci /\ nsi = st.si + 1)
                       /\ col = t => (st.cmp = "Equal" /\ nci = st.ci + 1 /\ nsi = st.si + 1)
               /\ Len(r.res) = Cardinality(eq)
               /\ \A j \in 1..Len(r.res) :
                    /\ r.res[j].col = r.res[j].site.pos - 1
                    /\ \E k \in eq :
                         /\ Cardinality({m \in eq : m <= k}) = j
                         /\ r.res[j].col = stream[r.steps[k].ci].pos
                         /\ r.res[j].site = batch[r.steps[k].si]

W13_AllThreeCases ==
    \E b \in DOMAIN batch_res :
        /\ batch_res[b].st = "ok"
        /\ {batch_res[b].steps[k].cmp : k \in 1..Len(batch_res[b].steps)}
             = {"Less", "Greater", "Equal"}

\* The archive with columns at 100, 102 and 104 and the sites at 101, 102,
\* 104 and 106.
IsScenario ==
    /\ columns = {100, 102, 104}
    /\ [k \in 1..Len(sites) |-> sites[k].pos] = <<101, 102, 104, 106>>

\* C14 as stated (PLP end-to-end scenario): the call returns [102, 104].
C14_Original ==
    (IsScenario /\ plp_result.st = "ok") => OutPos(plp_result.out) = <<102, 104>>

\* C14 as amended (PLP end-to-end scenario): with columns at 100, 102 and
\* 104 and sites at 101, 102, 104 and 106, a call that succeeds returns
\* [101], the one site whose pos - 1 is the position of a column.
C14_Scenario ==
    (IsScenario /\ plp_result.st = "ok") => OutPos(plp_result.out) = <<101>>

W14_ScenarioReturned ==
    /\ IsScenario
    /\ ppc = "done"
    /\ plp_result.st = "ok"
    /\ Len(batched_regions) > 1

\* Within each contig the sites are at different positions.
DistinctPositions ==
    \A k \in 1..(Len(sites) - 1) :
        sites[k].contig = sites[k + 1].contig => sites[k].pos < sites[k + 1].pos

\* C15 (PLP coverage-skip): a site with no column at pos - 1 is in no
\* batch's results; a batch fails only on an I/O failure or on an Err of
\* work_for_locus, never because a site went without a column; the call
\* succeeds exactly when no batch failed, and then returns no uncovered
\* site, the empty vector when no site is covered, and, for sites at
\* different positions, the covered sites in order.
C15_CoverageSkip ==
    /\ [](\A b \in DOMAIN batch_res :
            /\ batch_res[b].st = "err" => batch_res[b].cause \in {"io", "user"}
            /\ \A k \in 1..Len(batch_res[b].res) : Covered(batch_res[b].res[k].site))
    /\ [][Collecting =>
            (plp_result'.st = "ok" <=>
                \A b \in DOMAIN batch_res : batch_res[b].st = "ok")]_vars
    /\ [](plp_result.st = "ok" =>
            /\ \A k \in 1..Len(plp_result.out) : Covered(plp_result.out[k].site)
            /\ (\A k \in 1..Len(sites) : ~Covered(sites[k])) => plp_result.out = <<>>
            /\ DistinctPositions =>
                 SeqRange(OutIds(plp_result.out))
                   = {k \in 1..Len(sites) : Covered(sites[k])})

W15_SkippedAndReported ==
    /\ ppc = "done"
    /\ plp_result.st = "ok"
    /\ plp_result.out # <<>>
    /\ \E k \in 1..Len(sites) : ~Covered(sites[k])
    /\ \E k \in 1..Len(sites) : \E j \in 1..Len(sites) :
         k < j /\ ~Covered(sites[k]) /\ j \in SeqRange(OutIds(plp_result.out))

\* C16 (PLP user error is fatal): when work_for_locus returned Err in some
\* batch, the collect makes the call return Err with no output vector,
\* whatever the other batches produced.
C16_UserErrorFatal ==
    /\ [][(Collecting /\ \E b \in DOMAIN batch_res :
                             batch_res[b].st = "err" /\ batch_res[b].cause = "user")
            => plp_result' = [st |-> "err", out |-> <<>>]]_vars
    /\ []("user" \in collected.causes => plp_result = [st |-> "err", out |-> <<>>])

W16_ErrorAfterResults ==
    /\ ppc = "done"
    /\ "user" \in collected.causes
    /\ collected.produced > 0
    /\ plp_result.st = "err"

\* C17 (batcher partition): for a site list sorted by (contig, pos) and a
\* window of at least 1, the batches are non-empty, their concatenation
\* is the input in order, and in every batch the items share one contig
\* and pos_last - pos_first < window_size; the empty input gives no
\* batch and a single item gives one batch of that item.
C17_BatcherPartition ==
    (ppc \in {"map", "done"} /\ SortedByCoordinate(sites) /\ batch_window_size >= 1) =>
        /\ \A b \in DOMAIN batched_regions :
             LET batch == batched_regions[b]
             IN /\ batch # <<>>
                /\ \A j \in DOMAIN batch : batch[j].contig = batch[1].contig
                /\ batch[Len(batch)].pos - batch[1].pos < batch_window_size
        /\ ConcatAll(batched_regions) = sites
        /\ sites = <<>> => batched_regions = <<>>
        /\ Len(sites) = 1 => batched_regions = <<sites>>

W17_SeveralBatches ==
    /\ ppc = "map"
    /\ Len(batched_regions) >= 2
    /\ \E b \in DOMAIN batched_regions : Len(batched_regions[b]) >= 2

\* C18 (batcher boundary rule): an item starts a batch exactly when it is
\* the first item of the input, or its contig differs from the contig of
\* the first item of the batch before it, or its pos minus the pos of
\* that first item is at least window_size; and (chr1,100), (chr1,1099),
\* (chr1,1100) under a window of 1000 give [[100, 1099], [1100]].
C18_BatcherBoundary ==
    ppc \in {"map", "done"} =>
        /\ \A k \in 1..Len(sites) :
             LET starts == batched_regions[BatchOf(k)][1].id = k
             IN starts <=>
                  \/ k = 1
                  \/ LET first == batched_regions[BatchOf(k - 1)][1]
                     IN \/ sites[k].contig # first.contig
                        \/ sites[k].pos - first.pos >= batch_window_size
        /\ ([k \in 1..Len(sites) |-> sites[k].pos] = <<100, 1099, 1100>>
              /\ batch_window_size = 1000) =>
             [b \in 1..Len(batched_regions) |->
                 [j \in 1..Len(batched_regions[b]) |-> batched_regions[b][j].pos]]
               = <<<<100, 1099>>, <<1100>>>>

W18_AgainstFirstItem ==
    /\ ppc = "map"
    /\ \E k \in 3..Len(sites) :
         /\ batched_regions[BatchOf(k)][1].id = k
         /\ sites[k].contig = sites[k - 1].contig
         /\ sites[k].pos - sites[k - 1].pos < batch_window_size
         /\ BatchOf(k - 2) = BatchOf(k - 1)

\* The batch that holds the k-th region of the input.
RegionBatchOf(k) ==
    CHOOSE b \in DOMAIN region_batches :
        \E j \in DOMAIN region_batches[b] : region_batches[b][j].id = k

Capacity == pbs_n * n_bases_in_chunk(pbs_type)

\* s is a string over {A,C,G,T,N,a,c,g,t,n} of at most C bytes.
ValidNucleotides ==
    /\ \A k \in 1..Len(pbs_s) : pbs_s[k] \in NucleotideBytes
    /\ Len(pbs_s) <= Capacity

\* C20 (round trip of the packed sequence): for every string s over
\* {A,C,G,T,N,a,c,g,t,n} of at most C bytes, with 64-bit and with 16-bit
\* chunks, from_bytes(s) succeeds and the text of the array it returns is
\* s in upper case.
C20_RoundTrip ==
    ValidNucleotides =>
        /\ bpc # "failed"
        /\ bpc = "shown" => pbs_text = [st |-> "Ok", text |-> upper(pbs_s)]

\* What the claim C21 expects of get(index): the base of the upper-cased
\* byte below the length of s, None from there on.
ExpectedAt(index) ==
    IF index < Len(pbs_s) THEN BYTE_TO_BASE_TABLE(upper(pbs_s)[index + 1]) ELSE "None"

\* C21 (indexing of the packed sequence): for every string s over
\* {A,C,G,T,N,a,c,g,t,n} of at most C bytes, from_bytes(s) gives an array
\* on which get(i) is the upper-cased s[i] for every i < |s| and none for
\* every i >= |s|, below C and from C on.
C21_Indexing ==
    ValidNucleotides =>
        /\ bpc # "failed"
        /\ pbs_got.st = "got" => pbs_got.res = ExpectedAt(pbs_got.index)

\* On the arrays that from_bytes returns, get(i) is the symbol of s[i]
\* below |s| and None from there on.
Indexing_of_built ==
    pbs_got.st = "got" => pbs_got.res = ExpectedAt(pbs_got.index)

\* The last call of set.
LastSet == pbs_sets[Len(pbs_sets)]

\* C22 (set leaves the other slots alone): on an array built from a valid
\* s, after set(i, n) with i < C, whatever calls of set came before,
\* get(i) is n and get(j) is what it was before the call for every j # i
\* below |s|.
C22_SetIndependence ==
    (pbs_sets # <<>> /\ bpc = "built") =>
        /\ get(pbs_type, pbs_n, pbs_arr.inner, LastSet.index) = LastSet.base
        /\ \A j \in 0..(Len(pbs_s) - 1) :
             j # LastSet.index =>
                get(pbs_type, pbs_n, pbs_arr.inner, j) = get(pbs_type, pbs_n, pbs_prev.inner, j)

W22_SetsAcrossChunks ==
    /\ bpc = "built"
    /\ Len(pbs_sets) = 2
    /\ pbs_sets[1].index = n_bases_in_chunk(pbs_type) - 1
    /\ pbs_sets[2].index = n_bases_in_chunk(pbs_type)
    /\ Len(pbs_s) > n_bases_in_chunk(pbs_type)
    /\ pbs_arr # pbs_prev

\* The 0-based offsets of the bytes of s outside the given set.
OffsetsOutside(accepted) == {k \in 0..(Len(pbs_s) - 1) : pbs_s[k + 1] \notin accepted}

\* What from_bytes returns, as the claim C23 has it for a set of accepted
\* bytes: too long exactly above C; else invalid exactly when a byte is
\* outside the set, with that byte and the offset of the first such byte;
\* an array only on success.
ErrorsFor(accepted) ==
    bpc # "call" =>
        /\ pbs_arr.st = "TooLong" <=> Len(pbs_s) > Capacity
        /\ Len(pbs_s) <= Capacity =>
             /\ pbs_arr.st = "Invalid" <=> OffsetsOutside(accepted) # {}
             /\ pbs_arr.st = "Invalid" =>
                  /\ \A k \in OffsetsOutside(accepted) : pbs_arr.position <= k
                  /\ pbs_arr.position \in OffsetsOutside(accepted)
                  /\ pbs_arr.byte = pbs_s[pbs_arr.position + 1]
        /\ pbs_arr.st # "Ok" => "inner" \notin DOMAIN pbs_arr

\* C23 (construction errors): from_bytes(s) fails as too long exactly when
\* |s| > C; for |s| <= C it fails as invalid exactly when s holds a byte
\* outside {A,C,G,T,N,a,c,g,t,n}, naming that byte and the 0-based offset
\* of the first such byte; on an error no array is returned.
C23_ConstructionErrors == ErrorsFor(NucleotideBytes)

\* The same with the bytes that BYTE_TO_CODE_LOOKUP knows as the accepted
\* set.
Errors_of_table == ErrorsFor({b_A, b_T, b_C, b_G, b_N})

\* The capacity of the buffer and the number of calls of next_mut that
\* found a free slot.
capacity(b) == Len(b.inner)
Handed == Min(Len(bd_log), capacity(bd))

\* C24 (filling a buffer): on a new buffer of capacity c the k-th call of
\* next_mut, k <= c, hands out slot k-1 and moves the cursor by one, so
\* filled() is the prefix of the slots handed out, as the caller left
\* them; with the cursor at c is_full holds, and every further next_mut
\* returns none and changes neither the cursor nor a slot; is_empty holds
\* exactly when the cursor is 0.
C24_FillProtocol ==
    /\ bd.next_item_idx = Handed
    /\ \A k \in 1..Len(bd_log) :
         bd_log[k].ret = IF k <= capacity(bd) THEN k - 1 ELSE "None"
    /\ filled(bd) = [k \in 1..Handed |-> bd_log[k].v]
    /\ bd.inner = filled(bd) \o SubSeq(bd_init, Handed + 1, Len(bd_init))
    /\ is_full(bd) <=> bd.next_item_idx = capacity(bd)
    /\ is_empty(bd) <=> bd.next_item_idx = 0

W24_FilledThenRefused ==
    /\ capacity(bd) = 3
    /\ Len(bd_log) = 5
    /\ bd_log[3].ret = 2
    /\ bd_log[5].ret = "None"
    /\ is_full(bd)

\* The batch objects alive: those in the queues and in the threads' hands
\* and those parked in the writer's map.
Alive == NonParked + Parked

\* C25 (cap on the batches the writer makes): between two writes of a
\* batch the writer makes at most maximum_batch_gen fresh batches, however
\* many batches arrive out of order while the batch it waits for is
\* missing; so while no thread has failed the batches alive number at most
\* channel_capacity + maximum_batch_gen.
C25_MintingCap ==
    /\ stall_minted <= maximum_batch_gen
    /\ NoThreadFailed => Alive <= channel_capacity + maximum_batch_gen

\* C26 (flush after a write): after the writer has written a batch it also
\* writes, one after the other, every parked batch that starts at its new
\* counter i, before it polls rx_worker again; so whenever the writer is
\* at rx_worker.try_recv() its map holds no batch under i.
C26_FlushAfterWrite ==
    wrpc = "recv" => wi \notin DOMAIN ordered_buf_map

\* The writer is leaving its final loop (nothing is parked under i) or has
\* returned Ok.
WriterExits ==
    \/ wrpc = "drain" /\ wi \notin DOMAIN ordered_buf_map
    \/ wrpc = "ok"

\* C27 (the drain is complete): once tx_worker is disconnected the writer
\* writes every batch still parked in its map, so in every run in which no
\* thread has failed the map is empty when the writer leaves its final
\* loop and the debug_assert there holds.
C27_DrainCompleteness ==
    (WriterExits /\ NoThreadFailed) => DOMAIN ordered_buf_map = {}

\* C28 (a batch taken from a queue is handed on): every batch that the
\* reader, a worker or the writer takes from its queue goes on to the next
\* queue (the writer's: back to tx_buf), on every path of that stage; no
\* stage drops a batch it took, and none exits with one.  So the batches
\* alive are at all times the channel_capacity of the start and those the
\* writer has made, and the writer does not end with a batch in its map.
C28_HandOver ==
    /\ Alive = channel_capacity + minted
    /\ wrpc \in Terminal => DOMAIN ordered_buf_map = {}

\* No filled slot of the batch holds a record with a header attached.
NoHeaderIn(b) == \A k \in 1..b.next_item_idx : ~b.inner[k].hdr

\* C29 (P3, headers are detached): no record in a filled slot of a batch
\* that is in tx_read or in tx_worker has a header attached, nor has one
\* in a batch that the reader or a worker is about to enqueue: the reader
\* detaches the header after a read that succeeded, and a worker, which
\* attaches its own before modify_record, has detached it or put the
\* default record in its place in every filled slot.
C29_HeaderDetached ==
    /\ \A k \in 1..Len(tx_read) : NoHeaderIn(tx_read[k])
    /\ \A k \in 1..Len(tx_worker) : NoHeaderIn(tx_worker[k])
    /\ rpc = "send" => NoHeaderIn(rbatch)
    /\ \A w \in 1..MaxWorkers : wpc[w] = "send" => NoHeaderIn(wbatch[w])

W29_ReadAndModifiedInQueues ==
    /\ tx_read # <<>>
    /\ tx_worker # <<>>
    /\ \E k \in 1..Head(tx_read).next_item_idx :
         Head(tx_read).inner[k].rec # default_record
    /\ \E k \in 1..Head(tx_worker).next_item_idx :
         /\ Head(tx_worker).inner[k].rec # default_record
         /\ input[Head(tx_worker).inner[k].rec] = "keep"
    /\ \E k \in 1..Head(tx_worker).next_item_idx :
         Head(tx_worker).inner[k].rec = default_record

\* The closure of batch b came to its end at an error item of the pile-up
\* stream: the item the iterator yielded last is not Ok.
StreamErrorHit(b) ==
    /\ batch_res[b].st = "ok"
    /\ batch_res[b].ci \in 1..Len(StreamOf(b))
    /\ ~StreamOf(b)[batch_res[b].ci].ok

\* C30 (an error in the pile-up stream is fatal): when the pile-up
\* iterator of a batch has yielded an error item, or the archive could not
\* be opened or fetched for it, process_with_batch returns Err; it never
\* returns Ok with the outputs gathered before the error.
C30_StreamErrorFatal ==
    [][(Collecting /\ \E b \in DOMAIN batch_res :
                         \/ StreamErrorHit(b)
                         \/ batch_res[b].st = "err" /\ batch_res[b].cause = "io")
        => plp_result'.st = "err"]_vars

\* The 3-bit code at slot k of the array, counted over the chunks in
\* order: bits 3j, 3j + 1 and 3j + 2 of the chunk for the slot j in it.
CodeAt(ty, inner, k) ==
    LET per == n_bases_in_chunk(ty)
        chunk == inner[k \div per]
        bit == (k % per) * 3
    IN chunk[bit] + 2 * chunk[bit + 1] + 4 * chunk[bit + 2]

\* C31 (NULL is a terminator): on every array that was built, after every
\* sequence of calls set(i, n) with i < C, a slot whose code is 0 is
\* followed by slots whose code is 0 only: no set leaves a NULL slot in
\* front of a non-NULL slot.
C31_TerminatorInvariant ==
    bpc = "built" =>
        \A k \in 0..(Capacity - 1) :
            CodeAt(pbs_type, pbs_arr.inner, k) = NULL_CODE =>
                \A j \in (k + 1)..(Capacity - 1) :
                    CodeAt(pbs_type, pbs_arr.inner, j) = NULL_CODE

\* Two outcomes of a construction are the same: the same array, or the
\* same kind of error, with the same byte and offset when the error names
\* an invalid symbol.
SameOutcome(a, b) ==
    /\ a.st = b.st
    /\ a.st = "Ok" => a.inner = b.inner
    /\ a.st = "Invalid" => (a.byte = b.byte /\ a.position = b.position)

\* C32 (from_iter agrees with from_bytes): for every byte sequence s, valid
\* or not, shorter or longer than C, from_iter over the bytes of s and
\* from_bytes(s) give the same outcome: the same array, or the same kind
\* of error (invalid symbol at the same offset, or too long).
C32_FromIterAgrees ==
    (pbs_arr.st # "none" /\ pbs_iter.st # "none") => SameOutcome(pbs_iter, pbs_arr)

\* The first and the last index of the range the iterator was made for,
\* the end clamped to C.
IterStart == IF it.kind \in {"Range", "RangeFrom"} THEN it.start ELSE 0
IterEnd == IF it.kind \in {"Range", "RangeTo"} THEN Min(it.end, Capacity) ELSE Capacity

\* The first index from the start on that is at or past the end, or whose
\* code is NULL.
IterStop ==
    IF IterStart >= IterEnd
    THEN IterStart
    ELSE CHOOSE j \in IterStart..IterEnd :
           /\ j = IterEnd \/ CodeAt(pbs_type, pbs_arr.inner, j) = NULL_CODE
           /\ \A h \in IterStart..(j - 1) : CodeAt(pbs_type, pbs_arr.inner, h) # NULL_CODE

\* The symbols of a text.
SymbolsOf(text) == [k \in 1..Len(text) |-> BYTE_TO_BASE_TABLE(text[k])]

\* C33 (iteration): for every array and every range, the k-th call of next
\* returns get(start + k - 1) as long as that index is before the first
\* index that is >= min(end, C) or holds NULL, and none from then on, in
\* every later call too; iter() over the whole array yields the symbols of
\* the text form.
C33_Iteration ==
    it.st # "none" =>
        LET stop == IterStop
        IN /\ it.st = "iter"
           /\ \A k \in 1..Len(it_log) :
                it_log[k] = IF IterStart + k - 1 < stop
                            THEN get(pbs_type, pbs_n, pbs_arr.inner, IterStart + k - 1)
                            ELSE "None"
           /\ (it.kind = "RangeFull" /\ Nones(it_log) > 0) =>
                SubSeq(it_log, 1, stop - IterStart)
                   = SymbolsOf(to_string(pbs_type, pbs_n, pbs_arr.inner).text)

W33_StoppedAtInteriorNull ==
    /\ it.st = "iter"
    /\ it.kind = "Range"
    /\ IterStop < IterEnd
    /\ \E j \in (IterStop + 1)..(IterEnd - 1) : CodeAt(pbs_type, pbs_arr.inner, j) # NULL_CODE
    /\ Len(it_log) > IterEnd - IterStart
    /\ Nones(it_log) > 1
    /\ it_log[1] # "None"

\* C34 (frame and bounds of set): set(i, n) with i >= C panics and leaves
\* the array as it was; set(i, n) with i < C returns, puts the code of n
\* at slot i and changes nothing else: every other slot of the chunk,
\* filled or not, keeps its code, and every other chunk keeps its value;
\* with 64-bit and with 16-bit chunks.
C34_SetFrame ==
    pbs_sets # <<>> =>
        IF LastSet.index >= Capacity
        THEN bpc = "panicked" /\ pbs_arr = pbs_prev
        ELSE /\ bpc = "built"
             /\ CodeAt(pbs_type, pbs_arr.inner, LastSet.index)
                  = BASE_TO_CODE_TABLE[Base_as_usize(LastSet.base)]
             /\ \A j \in 0..(Capacity - 1) :
                  j # LastSet.index =>
                     CodeAt(pbs_type, pbs_arr.inner, j) = CodeAt(pbs_type, pbs_prev.inner, j)
             /\ \A c \in 0..(pbs_n - 1) :
                  c # LastSet.index \div n_bases_in_chunk(pbs_type) =>
                     pbs_arr.inner[c] = pbs_prev.inner[c]

\* A set in the middle of a filled chunk next to another chunk, and a set
\* at C that panicked after it.
W34_InsideThenPanic ==
    /\ bpc = "panicked"
    /\ pbs_n = 2
    /\ Len(pbs_sets) = 2
    /\ pbs_sets[1].index = n_bases_in_chunk(pbs_type) - 1
    /\ pbs_sets[2].index = Capacity
    /\ Len(pbs_s) = Capacity
    /\ CodeAt(pbs_type, pbs_arr.inner, 0) # CodeAt(pbs_type, pbs_arr.inner, pbs_sets[1].index)

\* C35 (the cursor stays inside the buffer): after any sequence of calls
\* of next_mut, increment_idx, modify_next, filled, filled_mut, clear_with
\* and reset_index on a new buffer, 0 <= cursor <= capacity, and no call
\* of filled or filled_mut slices past the end of the buffer.
C35_CursorInvariant ==
    /\ bd.next_item_idx >= 0
    /\ bd.next_item_idx <= capacity(bd)
    /\ ~bd_call.panic

\* What reset_index and clear_with leave behind: the cursor at 0 and the
\* capacity as it was; reset_index leaves every slot as it was, clear_with
\* applies clear_f once to each slot before the old cursor and to no
\* other.
ResetFrame ==
    /\ bd_call.op = "reset_index" =>
         /\ bd.next_item_idx = 0
         /\ bd.inner = bd_prev.inner
    /\ bd_call.op = "clear_with" =>
         /\ bd.next_item_idx = 0
         /\ capacity(bd) = capacity(bd_prev)
         /\ \A k \in 1..capacity(bd) :
              bd.inner[k] = IF k <= bd_prev.next_item_idx
                            THEN bd_prev.inner[k] + ClearStep
                            ELSE bd_prev.inner[k]

\* The last call is a next_mut right after a reset_index or a clear_with.
NextMutAfterReset ==
    bd_call.op = "next_mut" /\ bd_call.before \in {"reset_index", "clear_with"}

C37_NoDuplicateOutput ==
    /\ \A a \in 1..Len(output) : \A b \in 1..Len(output) :
         a # b => output[a].rec # output[b].rec
    /\ \A a \in 1..Len(output) :
         /\ output[a].rec \in 1..pos
         /\ input[output[a].rec] = "keep"

\* Every batch on its way to the writer, in tx_read, in a worker's hands
\* or in tx_worker, has at least one filled slot.
NoEmptyBatchOnTheWay ==
    /\ \A k \in 1..Len(tx_read) : ~is_empty(tx_read[k])
    /\ \A w \in 1..worker_thread : wpc[w] = "send" => ~is_empty(wbatch[w])
    /\ \A k \in 1..Len(tx_worker) : ~is_empty(tx_worker[k])

\* The writer's main loop panics: "Code failed: Reader sent empty batch!".
EmptyBatchPanic == wrpc = "recv" /\ wrpc' = "panic"

\* C38 (the writer never sees an empty batch): with batch_size >= 1 every
\* batch that reaches the writer through tx_worker has at least one
\* filled slot, and no step of the writer is the panic on an empty batch.
C38_NoEmptyBatch ==
    /\ []NoEmptyBatchOnTheWay
    /\ [][~EmptyBatchPanic]_vars

\* The archive is empty and the writer has taken the one batch the reader
\* sent at its end.
W38_EofBatchAtWriter ==
    /\ input = <<>>
    /\ rpc = "ok"
    /\ Len(handled) = 1
    /\ wrpc \in {"send", "recv"}

\* C39 (the recycle queue never blocks the writer): whenever the writer is
\* about to send a batch to tx_buf, a written batch or a fresh one, tx_buf
\* holds fewer than channel_capacity batches, so the send completes
\* without waiting, also after the reader has exited.
C39_RecycleNeverBlocks ==
    wrpc = "send" => Len(tx_buf) < channel_capacity

\* The writer is about to send a fresh batch after the reader has exited,
\* with one place left in tx_buf.
W39_SendAfterReaderExit ==
    /\ wrpc = "send"
    /\ rpc = "ok"
    /\ minted >= 1
    /\ stall_minted >= 1
    /\ Len(tx_buf) = channel_capacity - 1
    /\ channel_capacity = 2

\* C40 (every covered site is reported once): when the call returns its
\* results, every site, sites at equal positions included, that has a
\* column at pos - 1 is in exactly one output, and a site is in no output
\* only when it has no such column.
C40_CoveredReportedOnce ==
    plp_result.st = "ok" =>
        \A k \in 1..Len(sites) :
            Covered(sites[k]) =>
                Cardinality({j \in 1..Len(plp_result.out) : plp_result.out[j].site.id = k}) = 1

====
